---- MODULE Spec2Model ----
(***************************************************************************)
(* Model of the tour map renderer (static/tours/tour-maps.js): lazy map    *)
(* initialisation, the GPX 'loaded'/'error' handlers, peak marker          *)
(* deduplication, direction arrow placement and the peak click handler.    *)
(*                                                                         *)
(* Coordinates are integers in units of 1e-7 degree, so the 7th decimal    *)
(* place is the last digit.  Track points are positions in metres along a  *)
(* straight line, so distanceBetween is the absolute difference.           *)
(***************************************************************************)
EXTENDS Integers, Sequences, FiniteSets, TLC

\* ------------------------------------------------------------------------
\* Bounds of the model
\* ------------------------------------------------------------------------
MaxPeaks == 2
MaxPoints == 7
MaxTimers == 1
MaxEntries == 2
MaxNumbers == 3
MaxTours == 3
MaxCalls == 3

\* ------------------------------------------------------------------------
\* Program constants
\* ------------------------------------------------------------------------
ARROW_SPACING_METERS == 400
ARROW_SAMPLE_RATE == 5
PEAK_SCALE_MULTIPLE == 2
PEAK_TEXT_FONT_SIZE == 11
MAPTILER_MAX_ZOOM == 18
OPENTOPO_MAX_ZOOM == 17
LAYER_READY_MAX_ATTEMPTS == 10

\* ------------------------------------------------------------------------
\* Generic helpers
\* ------------------------------------------------------------------------
Abs(x) == IF x < 0 THEN -x ELSE x

Last(s) == s[Len(s)]

SeqsUpTo(S, n) == UNION {[1..k -> S] : k \in 0..n}

RECURSIVE SumSeq(_)
SumSeq(s) == IF s = <<>> THEN 0 ELSE s[1] + SumSeq(Tail(s))

\* ------------------------------------------------------------------------
\* Coordinates and keys
\* ------------------------------------------------------------------------
\* A raw JSON coordinate field: a number (v in 1e-7 degree), an absent
\* field, or a non-numeric string.
Num(v) == [t |-> "num", v |-> v]
AbsentField == [t |-> "absent", v |-> 0]
BadField == [t |-> "bad", v |-> 0]

\* JavaScript truthiness of a coordinate field (!peak.lat)
Truthy(f) == \/ f.t = "bad"
             \/ f.t = "num" /\ f.v # 0

\* parseFloat of a coordinate field
parseFloat(f) == IF f.t = "num" THEN [nan |-> FALSE, v |-> f.v]
                 ELSE [nan |-> TRUE, v |-> 0]

\* Number.prototype.toFixed(6): the sign is rendered separately and the
\* magnitude is rounded to the nearest multiple of 1e-6, ties up.
ToFixed6Trunc(v) == [neg |-> v < 0, mag |-> Abs(v) \div 10]
ToFixed6(v) == [neg |-> v < 0, mag |-> (Abs(v) + 5) \div 10]

coordKey(lat, lng) == <<ToFixed6(lat), ToFixed6(lng)>>

isValidCoordinate(lat, lng) ==
    /\ ~lat.nan /\ ~lng.nan
    /\ lat.v >= -900000000 /\ lat.v <= 900000000
    /\ lng.v >= -1800000000 /\ lng.v <= 1800000000

\* ------------------------------------------------------------------------
\* Peak deduplication (addPeakMarkers)
\* ------------------------------------------------------------------------
NoNumber == -1
NoLabel == ""

\* peak.number || 0
NumberOrZero(p) == IF p.number = NoNumber THEN 0 ELSE p.number

\* The guard of the first forEach: the entry takes part in the index
IsCounted(p) ==
    /\ Truthy(p.lat) /\ Truthy(p.lng)
    /\ isValidCoordinate(parseFloat(p.lat), parseFloat(p.lng))

PeakKey(p) == coordKey(parseFloat(p.lat).v, parseFloat(p.lng).v)

\* The position of the entry of a key in the index, 0 when it has none
IndexOfKeyNone(index, key) == 0

IndexOfKey(index, key) ==
    IF \E i \in 1..Len(index) : index[i].key = key
    THEN CHOOSE i \in 1..Len(index) : index[i].key = key
    ELSE 0

\* One iteration of the first forEach, on the insertion-ordered peakIndex
IndexStepLastLabel(index, p) ==
    IF ~IsCounted(p) THEN index
    ELSE LET key == PeakKey(p)
             i == IndexOfKey(index, key)
         IN IF i = 0
            THEN Append(index, [key |-> key,
                                lat |-> parseFloat(p.lat).v,
                                lng |-> parseFloat(p.lng).v,
                                label |-> p.label,
                                numbers |-> <<NumberOrZero(p)>>,
                                count |-> 1])
            ELSE [index EXCEPT ![i].numbers = Append(@, NumberOrZero(p)),
                               ![i].count = @ + 1,
                               ![i].label = p.label]

IndexStep(index, p) ==
    IF ~IsCounted(p) THEN index
    ELSE LET key == PeakKey(p)
             i == IndexOfKey(index, key)
         IN IF i = 0
            THEN Append(index, [key |-> key,
                                lat |-> parseFloat(p.lat).v,
                                lng |-> parseFloat(p.lng).v,
                                label |-> p.label,
                                numbers |-> <<NumberOrZero(p)>>,
                                count |-> 1])
            ELSE [index EXCEPT ![i].numbers = Append(@, NumberOrZero(p)),
                               ![i].count = @ + 1]

RECURSIVE BuildPeakIndex(_, _)
BuildPeakIndex(peaks, index) ==
    IF peaks = <<>> THEN index
    ELSE BuildPeakIndex(Tail(peaks), IndexStep(index, peaks[1]))

\* The marker created in the second forEach for one index entry
PeakMarkerOf(info) ==
    [key |-> info.key,
     lat |-> info.lat,
     lng |-> info.lng,
     scale |-> IF info.count > 1 THEN PEAK_SCALE_MULTIPLE ELSE 1,
     numbers |-> info.numbers,
     count |-> info.count,
     label |-> info.label,
     hasPopup |-> info.label # NoLabel]

\* The markers addPeakMarkers adds for a parsed array of peaks, in order
PeakMarkersFor(peaks) ==
    LET index == BuildPeakIndex(peaks, <<>>)
    IN [i \in 1..Len(index) |-> PeakMarkerOf(index[i])]

\* ------------------------------------------------------------------------
\* Direction arrows (addDirectionArrows)
\* ------------------------------------------------------------------------
distanceBetweenNonZero(a, b) == IF a = b THEN 1 ELSE Abs(b - a)
distanceBetween(a, b) == Abs(b - a)

\* allTrackPoints.filter((_, i) => i % sampleRate === 0), then the last point
\* (the points from the i-th on whose zero-based index is a multiple of
\* rate, in order)
FilterStride(points, i, rate) ==
    LET first == i + ((rate - ((i - 1) % rate)) % rate)
        count == IF first > Len(points) THEN 0 ELSE (Len(points) - first) \div rate + 1
    IN [k \in 1..count |-> [idx |-> first + (k - 1) * rate,
                            pos |-> points[first + (k - 1) * rate]]]

SampleRateForLongOnly(n) ==
    IF n > 1000
    THEN (IF ARROW_SAMPLE_RATE > n \div 200 THEN ARROW_SAMPLE_RATE ELSE n \div 200)
    ELSE 1

SampleRateFor(n) ==
    IF n > 1000
    THEN (IF ARROW_SAMPLE_RATE > n \div 200 THEN ARROW_SAMPLE_RATE ELSE n \div 200)
    ELSE ARROW_SAMPLE_RATE

\* The sampled points carry the index of the point object they are, since
\* the code compares object identity when it re-adds the last point.
SampleTrackPointsNoLast(points) == FilterStride(points, 1, SampleRateFor(Len(points)))

SampleTrackPoints(points) ==
    LET sampled == FilterStride(points, 1, SampleRateFor(Len(points)))
    IN IF Last(sampled).idx # Len(points)
       THEN Append(sampled, [idx |-> Len(points), pos |-> Last(points)])
       ELSE sampled

SegmentArrowsIf(prev, current, segmentDistance, travelled, nextMarkerDistance, spacing) ==
    IF travelled + segmentDistance >= nextMarkerDistance
    THEN [arrows |-> <<[at |-> nextMarkerDistance,
                        into |-> nextMarkerDistance - travelled,
                        seg |-> segmentDistance,
                        from |-> prev,
                        to |-> current]>>,
          next |-> nextMarkerDistance + spacing]
    ELSE [arrows |-> <<>>, next |-> nextMarkerDistance]

\* Math.ceil(a / b) for positive b
CeilDiv(a, b) == (a + b - 1) \div b

\* simplifyTrackPoints of the map image script; the last point is re-added
\* when its coordinates differ from those of the last sampled point
simplifyTrackPoints(points, max) ==
    IF Len(points) <= max
    THEN [i \in 1..Len(points) |-> [idx |-> i, pos |-> points[i]]]
    ELSE LET step == CeilDiv(Len(points), max)
             simplified == FilterStride(points, 1, step)
         IN IF Last(simplified).pos # Last(points)
            THEN Append(simplified, [idx |-> Len(points), pos |-> Last(points)])
            ELSE simplified

\* The inner while loop of one segment: arrows emitted and the new
\* nextMarkerDistance
RECURSIVE SegmentArrows(_, _, _, _, _, _)
SegmentArrows(prev, current, segmentDistance, travelled, nextMarkerDistance, spacing) ==
    IF travelled + segmentDistance >= nextMarkerDistance
    THEN LET distanceIntoSegment == nextMarkerDistance - travelled
             r == SegmentArrows(prev, current, segmentDistance, travelled,
                                nextMarkerDistance + spacing, spacing)
         IN [arrows |-> <<[at |-> nextMarkerDistance,
                           into |-> distanceIntoSegment,
                           seg |-> segmentDistance,
                           from |-> prev,
                           to |-> current]>> \o r.arrows,
             next |-> r.next]
    ELSE [arrows |-> <<>>, next |-> nextMarkerDistance]

\* The for loop over the sampled points
RECURSIVE ArrowLoopKeepNext(_, _, _, _, _)
RECURSIVE ArrowLoop(_, _, _, _, _)
ArrowLoopKeepNext(trackPoints, i, travelled, nextMarkerDistance, spacing) ==
    IF i > Len(trackPoints) THEN <<>>
    ELSE LET prev == trackPoints[i - 1].pos
             current == trackPoints[i].pos
             segmentDistance == distanceBetween(prev, current)
         IN IF segmentDistance = 0
            THEN ArrowLoopKeepNext(trackPoints, i + 1, travelled, nextMarkerDistance, spacing)
            ELSE LET r == SegmentArrows(prev, current, segmentDistance, travelled,
                                        nextMarkerDistance, spacing)
                 IN r.arrows \o ArrowLoopKeepNext(trackPoints, i + 1,
                                                  travelled + segmentDistance,
                                                  nextMarkerDistance, spacing)

ArrowLoop(trackPoints, i, travelled, nextMarkerDistance, spacing) ==
    IF i > Len(trackPoints) THEN <<>>
    ELSE LET prev == trackPoints[i - 1].pos
             current == trackPoints[i].pos
             segmentDistance == distanceBetween(prev, current)
         IN IF segmentDistance = 0
            THEN ArrowLoop(trackPoints, i + 1, travelled, nextMarkerDistance, spacing)
            ELSE LET r == SegmentArrows(prev, current, segmentDistance, travelled,
                                        nextMarkerDistance, spacing)
                 IN r.arrows \o ArrowLoop(trackPoints, i + 1,
                                          travelled + segmentDistance, r.next, spacing)

\* The arrows addDirectionArrows adds for the concatenated points of a track
DirectionArrowsForFullStart(allTrackPoints) ==
    IF Len(allTrackPoints) < 2 THEN <<>>
    ELSE ArrowLoop(SampleTrackPoints(allTrackPoints), 2, 0,
                   ARROW_SPACING_METERS, ARROW_SPACING_METERS)

DirectionArrowsFor(allTrackPoints) ==
    IF Len(allTrackPoints) < 2 THEN <<>>
    ELSE ArrowLoop(SampleTrackPoints(allTrackPoints), 2, 0,
                   ARROW_SPACING_METERS \div 2, ARROW_SPACING_METERS)

\* ------------------------------------------------------------------------
\* Nested coordinate arrays (collectLatLngs)
\* ------------------------------------------------------------------------
\* Values that occur in the result of getLatLngs: a point with numeric lat
\* and lng, an array, null, and any other value
LatLng(id) == [e |-> "pt", id |-> id, items |-> <<>>]
Arr(items) == [e |-> "arr", id |-> 0, items |-> items]
NullValue == [e |-> "null", id |-> 0, items |-> <<>>]
OtherValue == [e |-> "other", id |-> 0, items |-> <<>>]

RECURSIVE collectLatLngs(_, _)
RECURSIVE CollectEntries(_, _)
\* latLngs.forEach(entry => ...) on the target array
CollectEntries(entries, target) ==
    IF entries = <<>> THEN target
    ELSE LET entry == Head(entries)
         IN CollectEntries(Tail(entries),
                           IF entry.e = "arr" THEN collectLatLngs(entry, target)
                           ELSE IF entry.e = "pt" THEN Append(target, entry)
                           ELSE target)

IsLatLng(entry) == entry.e = "pt"

collectLatLngsShallow(latLngs, target) ==
    IF latLngs.e = "arr" THEN target \o SelectSeq(latLngs.items, IsLatLng) ELSE target

collectLatLngs(latLngs, target) ==
    IF latLngs.e = "null" THEN target
    ELSE IF latLngs.e = "arr" THEN CollectEntries(latLngs.items, target)
    ELSE target

\* ------------------------------------------------------------------------
\* GPX layer tree and track lines
\* ------------------------------------------------------------------------
Group(children) == [kind |-> "group", children |-> children, pts |-> <<>>]
Line(pts) == [kind |-> "line", children |-> <<>>, pts |-> pts]
Waypoint(pos) == [kind |-> "marker", children |-> <<>>, pts |-> <<pos>>]

\* The while loop of collectTrackLines: pop the last element of the stack,
\* push the children of a group in order, collect a polyline
RECURSIVE CollectLoop(_, _)
CollectLoop(stack, collected) ==
    IF stack = <<>> THEN collected
    ELSE LET current == Last(stack)
             rest == SubSeq(stack, 1, Len(stack) - 1)
         IN IF current.kind = "group"
            THEN CollectLoop(rest \o current.children, collected)
            ELSE IF current.kind = "line"
                 THEN CollectLoop(rest, Append(collected, current))
                 ELSE CollectLoop(rest, collected)

collectTrackLines(layer) == CollectLoop(<<layer>>, <<>>)

\* All coordinates below a layer (what getBounds extends over)
RECURSIVE LayerPoints(_)
LayerPoints(layer) ==
    IF layer.kind = "group"
    THEN UNION {LayerPoints(layer.children[i]) : i \in 1..Len(layer.children)}
    ELSE {layer.pts[i] : i \in 1..Len(layer.pts)}

SetMin(S) == CHOOSE x \in S : \A y \in S : x <= y
SetMax(S) == CHOOSE x \in S : \A y \in S : x >= y

\* e.target.getBounds(): a bounds object, valid iff it covers a coordinate
getBounds(layer) ==
    LET P == LayerPoints(layer)
    IN IF P = {} THEN [valid |-> FALSE, lo |-> 0, hi |-> 0]
       ELSE [valid |-> TRUE, lo |-> SetMin(P), hi |-> SetMax(P)]

\* Concatenation of the points of the lines, in the order of the lines
RECURSIVE ConcatLines(_)
ConcatLines(lines) ==
    IF lines = <<>> THEN <<>> ELSE lines[1].pts \o ConcatLines(Tail(lines))

\* addTrackOutline: one outline polyline per line that has points
RECURSIVE OutlinesFor(_)
OutlinesFor(lines) ==
    IF lines = <<>> THEN <<>>
    ELSE (IF lines[1].pts = <<>> THEN <<>> ELSE <<lines[1].pts>>)
         \o OutlinesFor(Tail(lines))

\* addEndpointMarkers: 'A' at the first point of the first line with points,
\* 'B' at the last point of the last line with points
RECURSIVE EndpointScan(_, _, _)
EndpointScan(lines, start, end) ==
    IF lines = <<>> THEN start \o end
    ELSE IF lines[1].pts = <<>> THEN EndpointScan(Tail(lines), start, end)
         ELSE EndpointScan(Tail(lines),
                           IF start = <<>> THEN <<[label |-> "A", pos |-> lines[1].pts[1]]>>
                                           ELSE start,
                           <<[label |-> "B", pos |-> Last(lines[1].pts)]>>)

EndpointsFor(lines) == EndpointScan(lines, <<>>, <<>>)

\* ------------------------------------------------------------------------
\* Viewport fit (zoomTrackToMax)
\* ------------------------------------------------------------------------
NoView == [kind |-> "none", target |-> <<>>, zoom |-> 0]

Max2(a, b) == IF a > b THEN a ELSE b
Min2(a, b) == IF a < b THEN a ELSE b

\* Values map.getBoundsZoom, map.getMinZoom and map.getMaxZoom can return
NotFinite == [finite |-> FALSE, z |-> 0]
Zoom(z) == [finite |-> TRUE, z |-> z]

\* A bounds argument that is null or undefined
NoBounds == [missing |-> TRUE]
IsMissing(bounds) == "missing" \in DOMAIN bounds

\* The view after zoomTrackToMax(map, bounds), given the value that
\* map.getBoundsZoom returns and the zoom limits of the map
zoomTrackToMaxNoClamp(view, bounds, boundsZoom, minZoom, maxZoom) ==
    IF IsMissing(bounds) THEN view
    ELSE IF ~bounds.valid THEN view
    ELSE IF ~boundsZoom.finite THEN view
    ELSE [kind |-> "setView", target |-> <<bounds.lo, bounds.hi>>, zoom |-> boundsZoom.z]

zoomTrackToMax(view, bounds, boundsZoom, minZoom, maxZoom) ==
    IF IsMissing(bounds) THEN view
    ELSE IF ~bounds.valid THEN view
    ELSE IF ~boundsZoom.finite THEN view
    ELSE LET atLeastMin == IF minZoom.finite THEN Max2(boundsZoom.z, minZoom.z)
                                            ELSE boundsZoom.z
             targetZoom == IF maxZoom.finite THEN Min2(atLeastMin, maxZoom.z)
                                             ELSE atLeastMin
         IN [kind |-> "setView", target |-> <<bounds.lo, bounds.hi>>, zoom |-> targetZoom]

\* ------------------------------------------------------------------------
\* State
\* ------------------------------------------------------------------------
VARIABLES
    leaflet,            \* window.L is defined
    hasObserver,        \* 'IntersectionObserver' in window
    observed,           \* canvases the IntersectionObserver observes
    pending,            \* pending list of the scroll fallback
    listening,          \* scroll/resize listeners of the fallback registered
    dataGpx,            \* data-gpx attribute of each canvas
    dataPeaks,          \* data-peaks attribute of each canvas
    dataKey,            \* data-maptiler-key attribute present
    mapThrows,          \* L.map(canvas) throws for the canvas
    initializedMaps,    \* the WeakMap of initialised canvases
    mapCount,           \* L.map instances created on each canvas
    gpxCount,           \* L.GPX loads created for each canvas
    gpx,                \* state of the GPX load of each canvas
    fallback,           \* canvas.innerHTML replaced by the failure message
    view,               \* last view command of each map
    decor,              \* outline, arrows, endpoints, peak markers on each map
    steps,              \* calls made by the 'loaded' handler, in order
    loadInput,          \* layer tree and bounds zoom of the 'loaded' event
    mapRegistry,        \* registerMap entries
    peakMarkerRegistry, \* per canvas marker map
    timers,             \* pending popup timers, in firing order
    popup,              \* key of the open popup of each map
    uncaught,           \* exceptions that left a handler
    lastEvent,          \* the handler that ran last, with its input
    rawPeaks,           \* input of the peak indexer
    peakResult,         \* its result
    trackInput,         \* input of the arrow placement
    arrowResult,        \* its result
    fnArgs,             \* arguments of the function that is applied on its own
    fnOut,              \* its result
    layer,              \* an outline layer that waits to be moved to the back
    animators           \* the PeakPathAnimators of the page (peak-path.js)

pageVars == <<leaflet, hasObserver, dataGpx, dataPeaks, dataKey, mapThrows>>
lazyVars == <<observed, pending, listening>>
initVars == <<initializedMaps, mapCount, gpxCount>>
mapVars == <<gpx, fallback, view, decor, steps, loadInput, mapRegistry, peakMarkerRegistry>>
clickVars == <<timers, popup>>
fnVars == <<rawPeaks, peakResult, trackInput, arrowResult, fnArgs, fnOut, layer, animators>>
vars == <<pageVars, lazyVars, initVars, mapVars, clickVars, uncaught, lastEvent, fnVars>>

\* The page holds two tour entries, each with one map canvas
Canvases == {1, 2}
NoCanvas == 0
NoKey == <<>>

\* ------------------------------------------------------------------------
\* Inputs
\* ------------------------------------------------------------------------
FrickenLat == 474769000
FrickenLng == 111302000
KarkopfLat == 474804000
KarkopfLng == 111449000

Peak(lat, lng, label, number) ==
    [lat |-> lat, lng |-> lng, label |-> label, number |-> number]

\* data-peaks attributes of the page: absent, not JSON, JSON that is not an
\* array, and an array with a repeated peak and an unlabelled one
NoPeaksAttr == [kind |-> "none", peaks |-> <<>>]
MalformedAttr == [kind |-> "malformed", peaks |-> <<>>]
NotArrayAttr == [kind |-> "notArray", peaks |-> <<>>]
TourPeaks ==
    <<Peak(Num(FrickenLat), Num(FrickenLng), "Fricken", 1),
      Peak(Num(KarkopfLat), Num(KarkopfLng), NoLabel, 2),
      Peak(Num(FrickenLat), Num(FrickenLng), "Fricken2", 7)>>
ArrayAttr == [kind |-> "array", peaks |-> TourPeaks]

PeakAttrs == {NoPeaksAttr, MalformedAttr, NotArrayAttr, ArrayAttr}
GpxAttrs == {"none", "invalid", "ok"}

\* Layer trees a 'loaded' event can carry
SingleTrack == Group(<<Group(<<Line(<<0, 300, 1000>>)>>)>>)
TwoSegments == Group(<<Group(<<Line(<<0, 500>>), Line(<<500, 900>>), Waypoint(700)>>)>>)
WaypointsOnly == Group(<<Group(<<Waypoint(200)>>)>>)
EmptyLine == Group(<<Group(<<Line(<<>>)>>)>>)
\* The 'loaded' events of the model: a layer tree with the zoom that
\* getBoundsZoom computes for it
LoadedEvents ==
    {<<SingleTrack, Zoom(12)>>, <<TwoSegments, Zoom(25)>>,
     <<WaypointsOnly, NotFinite>>, <<EmptyLine, Zoom(12)>>}

\* Click events: the clicked element and the tour entry around it
Click(isPeak, lat, lng, entry) ==
    [isPeak |-> isPeak, lat |-> lat, lng |-> lng, entry |-> entry]
ClickCoords ==
    {<<Num(FrickenLat), Num(FrickenLng)>>,
     <<Num(KarkopfLat), Num(KarkopfLng)>>,
     <<BadField, Num(FrickenLng)>>}
Clicks ==
    {Click(TRUE, xy[1], xy[2], e) : xy \in ClickCoords, e \in Canvases \cup {NoCanvas}}
    \cup {Click(FALSE, Num(FrickenLat), Num(FrickenLng), e) : e \in Canvases}

\* The call that ran last, for a click or a direct initMap call: the canvas
\* it reached, what it did, and the coordinates of a click that reached a map
Event(op, c, outcome, at) == [op |-> op, c |-> c, outcome |-> outcome, at |-> at]
Outcome(acted) == IF acted THEN "acted" ELSE "noop"
NoEvent == Event("other", NoCanvas, "acted", <<>>)

\* Attribute profiles of a canvas
Profile(g, p, k) == [gpx |-> g, peaks |-> p, key |-> k]
Profiles ==
    {Profile("ok", ArrayAttr, TRUE),
     Profile("ok", NoPeaksAttr, FALSE),
     Profile("ok", MalformedAttr, FALSE),
     Profile("ok", NotArrayAttr, FALSE),
     Profile("none", NoPeaksAttr, FALSE),
     Profile("invalid", ArrayAttr, FALSE)}

\* ------------------------------------------------------------------------
\* Initial state: the page after ready() has run initMapsWithLazyLoading
\* ------------------------------------------------------------------------
Unregistered ==
    [registered |-> FALSE,
     defaultBounds |-> [valid |-> FALSE, lo |-> 0, hi |-> 0],
     currentPeak |-> NoKey]
NoMarkerMap == [set |-> FALSE, markers |-> <<>>]
NoDecor == [outline |-> <<>>, arrows |-> <<>>, endpoints |-> <<>>, peaks |-> <<>>]
NotApplied == [done |-> FALSE, out |-> <<>>]

CanvasList == <<1, 2>>

InitRuntime ==
    /\ observed = IF hasObserver THEN Canvases ELSE {}
    /\ pending = IF hasObserver THEN <<>> ELSE CanvasList
    /\ listening = ~hasObserver
    /\ initializedMaps = {}
    /\ mapCount = [c \in Canvases |-> 0]
    /\ gpxCount = [c \in Canvases |-> 0]
    /\ gpx = [c \in Canvases |-> "idle"]
    /\ fallback = [c \in Canvases |-> FALSE]
    /\ view = [c \in Canvases |-> NoView]
    /\ decor = [c \in Canvases |-> NoDecor]
    /\ steps = [c \in Canvases |-> <<>>]
    /\ loadInput = [c \in Canvases |-> <<>>]
    /\ mapRegistry = [c \in Canvases |-> Unregistered]
    /\ peakMarkerRegistry = [c \in Canvases |-> NoMarkerMap]
    /\ timers = <<>>
    /\ popup = [c \in Canvases |-> NoKey]
    /\ uncaught = 0
    /\ lastEvent = NoEvent

NoArgs == <<>>
NoLayer == [version |-> "none"]
NoAnimators == <<>>

InitFnIdle ==
    /\ rawPeaks = <<>>
    /\ peakResult = NotApplied
    /\ trackInput = <<>>
    /\ arrowResult = NotApplied
    /\ fnArgs = NoArgs
    /\ fnOut = NotApplied
    /\ layer = NoLayer
    /\ animators = NoAnimators

Init ==
    /\ leaflet \in BOOLEAN
    /\ hasObserver \in BOOLEAN
    /\ \E prof \in [Canvases -> Profiles] :
          /\ dataGpx = [c \in Canvases |-> prof[c].gpx]
          /\ dataPeaks = [c \in Canvases |-> prof[c].peaks]
          /\ dataKey = [c \in Canvases |-> prof[c].key]
    /\ mapThrows = [c \in Canvases |-> FALSE]
    /\ InitRuntime
    /\ InitFnIdle

\* ------------------------------------------------------------------------
\* initMap
\* ------------------------------------------------------------------------
\* The two early returns of initMap: Leaflet missing, canvas already
\* initialised
InitMapPassesNoGuard(c) == leaflet
InitMapPasses(c) == leaflet /\ c \notin initializedMaps

\* isValidGpxUrl on the data-gpx attribute
HasValidGpxUrl(c) == dataGpx[c] = "ok"

\* initMap(c) leaves with an exception: L.map(canvas) throws after the
\* canvas was marked and its URL was accepted
InitMapThrows(c) == InitMapPasses(c) /\ HasValidGpxUrl(c) /\ mapThrows[c]

\* A forEach or filter over the canvases of S, in document order, ends at
\* the first canvas for which initMap throws
Thrown(S) == \E c \in S : InitMapThrows(c)
Reached(S) == {c \in S : \A d \in S : d < c => ~InitMapThrows(d)}
FirstThrown(S) == CHOOSE c \in Reached(S) : InitMapThrows(c)

\* What a lazy-loading callback leaves behind when initMap threw in it: the
\* canvas that threw and the canvases that were visible
LazyEvent(S, visible) ==
    IF Thrown(S)
    THEN Event("lazy", FirstThrown(S), "threw", [c \in Canvases |-> c \in visible])
    ELSE NoEvent

\* initMap called for the canvases of S in document order
InitMapAll(S) ==
    LET started == {c \in Reached(S) : InitMapPasses(c)}
        created == {c \in started : HasValidGpxUrl(c) /\ ~mapThrows[c]}
    IN /\ initializedMaps' = initializedMaps \cup started
       /\ uncaught' = uncaught + (IF Thrown(S) THEN 1 ELSE 0)
       /\ mapCount' = [c \in Canvases |-> IF c \in created THEN mapCount[c] + 1
                                          ELSE mapCount[c]]
       /\ gpxCount' = [c \in Canvases |-> IF c \in created THEN gpxCount[c] + 1
                                          ELSE gpxCount[c]]
       /\ gpx' = [c \in Canvases |-> IF c \in created THEN "pending" ELSE gpx[c]]
       /\ UNCHANGED <<fallback, view, decor, steps, loadInput, mapRegistry, peakMarkerRegistry>>

\* A direct call initMap(canvas)
InitMapCall(c) ==
    /\ InitMapAll({c})
    /\ lastEvent' = Event("initMap", c, Outcome(InitMapPasses(c)), <<>>)
    /\ UNCHANGED <<pageVars, lazyVars, clickVars, fnVars>>

\* ------------------------------------------------------------------------
\* Lazy loading
\* ------------------------------------------------------------------------
\* The IntersectionObserver callback with the intersecting entries I
ObserverCallback(I) ==
    /\ hasObserver
    /\ I # {} /\ I \subseteq observed
    /\ LET targets == {c \in I : c \notin initializedMaps}
       IN /\ InitMapAll(targets)
          /\ observed' = observed \ {c \in Reached(targets) : ~InitMapThrows(c)}
          /\ lastEvent' = LazyEvent(targets, I)
    /\ UNCHANGED <<pageVars, pending, listening, clickVars, fnVars>>

\* checkVisibility of the scroll fallback, V the canvases within the margin
CheckVisibility(V) ==
    /\ ~hasObserver
    /\ listening
    /\ LET Keep(c) == c \notin initializedMaps /\ c \notin V
           kept == SelectSeq(pending, Keep)
           targets == {pending[i] : i \in 1..Len(pending)} \cap
                      {c \in Canvases : c \notin initializedMaps /\ c \in V}
       IN /\ InitMapAll(targets)
          /\ pending' = IF Thrown(targets) THEN pending ELSE kept
          /\ listening' = IF Thrown(targets) THEN listening ELSE (kept # <<>>)
          /\ lastEvent' = LazyEvent(targets, V)
    /\ UNCHANGED <<pageVars, observed, clickVars, fnVars>>

\* The Leaflet script finishes loading
LoadLeaflet ==
    /\ ~leaflet
    /\ leaflet' = TRUE
    /\ lastEvent' = NoEvent
    /\ UNCHANGED <<hasObserver, dataGpx, dataPeaks, dataKey, mapThrows, lazyVars, initVars,
                   mapVars, clickVars, uncaught, fnVars>>

\* ------------------------------------------------------------------------
\* GPX events
\* ------------------------------------------------------------------------
\* Zoom limits of a map: no minZoom option is set, and maxZoom comes from the
\* tile layer that the data-maptiler-key attribute selects
MinZoomOf(c) == 0
MaxZoomOf(c) == IF dataKey[c] THEN MAPTILER_MAX_ZOOM ELSE OPENTOPO_MAX_ZOOM

\* addPeakMarkers: whether the marker registry of the canvas is set, the
\* markers added, and whether an exception leaves the function
addPeakMarkersNoCatch(attr) ==
    IF attr.kind = "none"
    THEN [registry |-> FALSE, markers |-> <<>>, thrown |-> FALSE]
    ELSE IF attr.kind = "malformed"
    THEN [registry |-> FALSE, markers |-> <<>>, thrown |-> TRUE]
    ELSE IF attr.kind = "notArray"
    THEN [registry |-> TRUE, markers |-> <<>>, thrown |-> TRUE]
    ELSE [registry |-> TRUE, markers |-> PeakMarkersFor(attr.peaks), thrown |-> FALSE]

addPeakMarkers(attr) ==
    IF attr.kind = "none"
    THEN [registry |-> FALSE, markers |-> <<>>, thrown |-> FALSE]
    ELSE IF attr.kind = "malformed"
    THEN [registry |-> FALSE, markers |-> <<>>, thrown |-> FALSE]
    ELSE IF attr.kind = "notArray"
    THEN [registry |-> TRUE, markers |-> <<>>, thrown |-> FALSE]
    ELSE [registry |-> TRUE, markers |-> PeakMarkersFor(attr.peaks), thrown |-> FALSE]

\* The calls of the 'loaded' handler, in the order it makes them
LoadedStepsMarkersFirst(hasLines) ==
    <<"collect">>
    \o (IF hasLines THEN <<"outline", "arrows", "endpoints">> ELSE <<>>)
    \o <<"peaks", "fit", "register">>

LoadedSteps(hasLines) ==
    <<"fit", "register", "collect">>
    \o (IF hasLines THEN <<"outline", "arrows", "endpoints">> ELSE <<>>)
    \o <<"peaks">>

\* The 'loaded' handler of the GPX layer of canvas c
GpxLoaded(c, tree, boundsZoom) ==
    /\ gpx[c] = "pending"
    /\ LET bounds == getBounds(tree)
           trackLines == collectTrackLines(tree)
           hasLines == trackLines # <<>>
           pk == addPeakMarkers(dataPeaks[c])
       IN /\ gpx' = [gpx EXCEPT ![c] = "loaded"]
          /\ view' = [view EXCEPT ![c] =
                         zoomTrackToMax(@, bounds, boundsZoom,
                                        Zoom(MinZoomOf(c)), Zoom(MaxZoomOf(c)))]
          /\ mapRegistry' = [mapRegistry EXCEPT ![c] =
                                [registered |-> TRUE,
                                 defaultBounds |-> bounds,
                                 currentPeak |-> NoKey]]
          /\ decor' = [decor EXCEPT ![c] =
                          [outline |-> IF hasLines THEN OutlinesFor(trackLines) ELSE <<>>,
                           arrows |-> IF hasLines
                                      THEN DirectionArrowsFor(ConcatLines(trackLines))
                                      ELSE <<>>,
                           endpoints |-> IF hasLines THEN EndpointsFor(trackLines) ELSE <<>>,
                           peaks |-> pk.markers]]
          /\ peakMarkerRegistry' = [peakMarkerRegistry EXCEPT ![c] =
                                       IF pk.registry
                                       THEN [set |-> TRUE, markers |-> pk.markers]
                                       ELSE @]
          /\ steps' = [steps EXCEPT ![c] = LoadedSteps(hasLines)]
          /\ loadInput' = [loadInput EXCEPT ![c] = <<tree, boundsZoom>>]
          /\ uncaught' = uncaught + (IF pk.thrown THEN 1 ELSE 0)
    /\ lastEvent' = NoEvent
    /\ UNCHANGED <<pageVars, lazyVars, initVars, fallback, clickVars, fnVars>>

\* What the 'error' handler does to the registration of the canvas
ErrorRegistrationDefault(reg) == [reg EXCEPT !.registered = TRUE]
ErrorRegistration(reg) == reg

\* The 'error' handler of the GPX layer of canvas c
GpxError(c) ==
    /\ gpx[c] = "pending"
    /\ gpx' = [gpx EXCEPT ![c] = "error"]
    /\ fallback' = [fallback EXCEPT ![c] = TRUE]
    /\ mapRegistry' = [mapRegistry EXCEPT ![c] = ErrorRegistration(@)]
    /\ lastEvent' = NoEvent
    /\ UNCHANGED <<pageVars, lazyVars, initVars, view, decor, steps, loadInput,
                   peakMarkerRegistry, clickVars, uncaught, fnVars>>

\* ------------------------------------------------------------------------
\* Peak click interaction
\* ------------------------------------------------------------------------
\* The early returns of handlePeakClick: the click reaches a registered map
ClickHasEntry(k) ==
    /\ k.isPeak
    /\ isValidCoordinate(parseFloat(k.lat), parseFloat(k.lng))
    /\ k.entry # NoCanvas

ClickReachesAnyEntry(k) == ClickHasEntry(k)
ClickReaches(k) ==
    /\ k.isPeak
    /\ isValidCoordinate(parseFloat(k.lat), parseFloat(k.lng))
    /\ k.entry # NoCanvas
    /\ mapRegistry[k.entry].registered

ClickKey(k) == coordKey(parseFloat(k.lat).v, parseFloat(k.lng).v)

\* tourEntry.querySelector('[data-tour-map]'): the canvas of the tour entry
\* around the clicked element
MapCanvasOfPage(k) == Head(<<1, 2>>)
MapCanvasOf(k) == k.entry

\* markerMap.get(peakKey) exists and has a popup
PopupMarkerAt(c, key) ==
    /\ peakMarkerRegistry[c].set
    /\ \E i \in 1..Len(peakMarkerRegistry[c].markers) :
          /\ peakMarkerRegistry[c].markers[i].key = key
          /\ peakMarkerRegistry[c].markers[i].hasPopup

FlyTo(k, zoom) ==
    [kind |-> "flyTo", target |-> <<parseFloat(k.lat).v, parseFloat(k.lng).v>>, zoom |-> zoom]
FlyToBounds(b) == [kind |-> "flyToBounds", target |-> <<b.lo, b.hi>>, zoom |-> 0]

\* The focus state after a click that reached the map state
NextPeakSticky(currentPeak, peakKey) == peakKey
NextPeak(currentPeak, peakKey) == IF currentPeak = peakKey THEN NoKey ELSE peakKey

\* Where handlePeakClick ends for the event: at one of the early returns
\* before the registry lookup, at the lookup, or in one of the two branches
ClickOutcome(k) ==
    IF ~ClickHasEntry(k) THEN "ignored"
    ELSE IF ~mapRegistry[k.entry].registered THEN "nomap"
    ELSE IF mapRegistry[k.entry].currentPeak = ClickKey(k) THEN "overview"
    ELSE "focus"

\* The document click handler
HandlePeakClick(k) ==
    /\ IF ~ClickReaches(k)
       THEN UNCHANGED <<mapRegistry, view, timers, popup>>
       ELSE LET c == MapCanvasOf(k)
                peakKey == ClickKey(k)
                same == NextPeak(mapRegistry[c].currentPeak, peakKey) = NoKey
            IN /\ mapRegistry' = [mapRegistry EXCEPT ![c].currentPeak =
                                     NextPeak(@, peakKey)]
               /\ IF same
                  THEN /\ view' = [view EXCEPT ![c] = FlyToBounds(mapRegistry[c].defaultBounds)]
                       /\ popup' = [popup EXCEPT ![c] = NoKey]
                       /\ UNCHANGED timers
                  ELSE /\ view' = [view EXCEPT ![c] = FlyTo(k, MaxZoomOf(c))]
                       /\ IF PopupMarkerAt(c, peakKey)
                          THEN /\ Len(timers) < MaxTimers
                               /\ timers' = Append(timers, [c |-> c, key |-> peakKey])
                          ELSE UNCHANGED timers
                       /\ UNCHANGED popup
    /\ lastEvent' = IF ClickHasEntry(k)
                     THEN Event("click", k.entry, ClickOutcome(k), <<k.lat.v, k.lng.v>>)
                     ELSE Event("click", NoCanvas, "ignored", <<>>)
    /\ UNCHANGED <<pageVars, lazyVars, initVars, gpx, fallback, decor, steps,
                   loadInput, peakMarkerRegistry, uncaught, fnVars>>

\* A popup timer fires: marker.openPopup()
TimerFire ==
    /\ timers # <<>>
    /\ popup' = [popup EXCEPT ![Head(timers).c] = Head(timers).key]
    /\ timers' = Tail(timers)
    /\ lastEvent' = NoEvent
    /\ UNCHANGED <<pageVars, lazyVars, initVars, mapVars, uncaught, fnVars>>

\* ------------------------------------------------------------------------
\* Specification of the page
\* ------------------------------------------------------------------------
Next ==
    \/ \E I \in SUBSET Canvases : ObserverCallback(I)
    \/ \E V \in SUBSET Canvases : CheckVisibility(V)
    \/ LoadLeaflet
    \/ \E c \in Canvases, ev \in LoadedEvents : GpxLoaded(c, ev[1], ev[2])
    \/ \E c \in Canvases : GpxError(c)
    \/ \E k \in Clicks : HandlePeakClick(k)
    \/ TimerFire

Spec == Init /\ [][Next]_vars

\* The page with direct calls of initMap in addition to the lazy triggers
NextDirect ==
    \/ Next
    \/ \E c \in Canvases : InitMapCall(c)

SpecDirect == Init /\ [][NextDirect]_vars

\* The page with canvases for which L.map throws
InitThrow ==
    /\ leaflet \in BOOLEAN
    /\ hasObserver \in BOOLEAN
    /\ \E prof \in [Canvases -> Profiles] :
          /\ dataGpx = [c \in Canvases |-> prof[c].gpx]
          /\ dataPeaks = [c \in Canvases |-> prof[c].peaks]
          /\ dataKey = [c \in Canvases |-> prof[c].key]
    /\ mapThrows \in [Canvases -> BOOLEAN]
    /\ InitRuntime
    /\ InitFnIdle

SpecThrow == InitThrow /\ [][Next]_vars

\* ------------------------------------------------------------------------
\* Specification of the peak indexer on its own
\* ------------------------------------------------------------------------
\* Raw peaks: coordinates that agree to 6 decimals, differ at the 7th
\* decimal on either side of the rounding boundary (in lat or in lng), differ
\* at the 5th decimal with and without a carry from the 7th, are missing,
\* not numeric or out of range, or lie on the equator; with and without
\* label and number
RawCoords ==
    {<<Num(FrickenLat), Num(FrickenLng)>>,
     <<Num(FrickenLat + 4), Num(FrickenLng)>>,
     <<Num(FrickenLat + 6), Num(FrickenLng)>>,
     <<Num(FrickenLat + 96), Num(FrickenLng)>>,
     <<Num(FrickenLat + 100), Num(FrickenLng)>>,
     <<Num(FrickenLat), Num(FrickenLng + 3)>>,
     <<Num(FrickenLat), Num(FrickenLng + 7)>>,
     <<AbsentField, Num(FrickenLng)>>,
     <<BadField, Num(FrickenLng)>>,
     <<Num(0), Num(FrickenLng)>>,
     <<Num(FrickenLat), Num(1810000000)>>}
RawLabels == {NoLabel, "Fricken", "Fricken2"}
RawNumbers == {NoNumber, 1, 7}
RawPeakSet ==
    {Peak(xy[1], xy[2], lb, n) : xy \in RawCoords, lb \in RawLabels, n \in RawNumbers}

InitPage ==
    /\ leaflet = TRUE
    /\ hasObserver = TRUE
    /\ dataGpx = [c \in Canvases |-> "none"]
    /\ dataPeaks = [c \in Canvases |-> NoPeaksAttr]
    /\ dataKey = [c \in Canvases |-> FALSE]
    /\ mapThrows = [c \in Canvases |-> FALSE]
    /\ InitRuntime

InitPeaks ==
    /\ InitPage
    /\ rawPeaks \in SeqsUpTo(RawPeakSet, MaxPeaks)
    /\ peakResult = NotApplied
    /\ trackInput = <<>>
    /\ arrowResult = NotApplied
    /\ fnArgs = NoArgs
    /\ fnOut = NotApplied
    /\ layer = NoLayer
    /\ animators = NoAnimators

\* The two forEach loops of addPeakMarkers applied to the parsed array
IndexPeaks ==
    /\ ~peakResult.done
    /\ peakResult' = [done |-> TRUE, out |-> PeakMarkersFor(rawPeaks)]
    /\ UNCHANGED <<pageVars, lazyVars, initVars, mapVars, clickVars, uncaught,
                   lastEvent, rawPeaks, trackInput, arrowResult, fnArgs, fnOut, layer, animators>>

NextPeaks == IndexPeaks

SpecPeaks == InitPeaks /\ [][NextPeaks]_vars

\* ------------------------------------------------------------------------
\* Specification of the arrow placement on its own
\* ------------------------------------------------------------------------
\* A straight track: points at non-decreasing positions along a line
Increments == {0, 100, 200, 500}

RECURSIVE PrefixSums(_, _)
PrefixSums(incs, at) ==
    IF incs = <<>> THEN <<at>>
    ELSE <<at>> \o PrefixSums(Tail(incs), at + incs[1])

InitArrows ==
    /\ InitPage
    /\ rawPeaks = <<>>
    /\ peakResult = NotApplied
    /\ \E incs \in SeqsUpTo(Increments, MaxPoints - 1) : trackInput = PrefixSums(incs, 0)
    /\ arrowResult = NotApplied
    /\ fnArgs = NoArgs
    /\ fnOut = NotApplied
    /\ layer = NoLayer
    /\ animators = NoAnimators

\* The sampling and the placement loop of addDirectionArrows
PlaceArrows ==
    /\ ~arrowResult.done
    /\ arrowResult' = [done |-> TRUE, out |-> DirectionArrowsFor(trackInput)]
    /\ UNCHANGED <<pageVars, lazyVars, initVars, mapVars, clickVars, uncaught,
                   lastEvent, rawPeaks, peakResult, trackInput, fnArgs, fnOut, layer, animators>>

NextArrows == PlaceArrows

SpecArrows == InitArrows /\ [][NextArrows]_vars

\* ------------------------------------------------------------------------
\* Specification of the two point samplers on their own
\* ------------------------------------------------------------------------
\* Values of the environment variable MAX_TRACK_POINTS
TrackPointLimits == {2, 3}

\* Coordinates of the points of a track to sample, repeated ones included
SamplePositions == {0, 100}

InitFnOnly ==
    /\ InitPage
    /\ rawPeaks = <<>>
    /\ peakResult = NotApplied
    /\ trackInput = <<>>
    /\ arrowResult = NotApplied
    /\ fnOut = NotApplied
    /\ layer = NoLayer
    /\ animators = NoAnimators

\* Point counts of tracks above the threshold of 1000 points
LongTrackLengths == {1001, 1400}

LongTracks == {[i \in 1..n |-> 0] : n \in LongTrackLengths}

InitSample ==
    /\ InitFnOnly
    /\ \E pts \in SeqsUpTo(SamplePositions, MaxPoints) \cup LongTracks, m \in TrackPointLimits :
          fnArgs = [points |-> pts, max |-> m]

Returned(fn, out) == [done |-> TRUE, fn |-> fn, out |-> out]

FnFrame ==
    UNCHANGED <<pageVars, lazyVars, initVars, mapVars, clickVars, uncaught, lastEvent,
                rawPeaks, peakResult, trackInput, arrowResult, fnArgs, layer, animators>>

\* The sampling of addDirectionArrows, reached with two points or more
SampleArrowPoints ==
    /\ ~fnOut.done
    /\ Len(fnArgs.points) >= 2
    /\ fnOut' = Returned("sample", SampleTrackPoints(fnArgs.points))
    /\ FnFrame

SimplifyPoints ==
    /\ ~fnOut.done
    /\ fnOut' = Returned("simplify", simplifyTrackPoints(fnArgs.points, fnArgs.max))
    /\ FnFrame

NextSample == SampleArrowPoints \/ SimplifyPoints

SpecSample == InitSample /\ [][NextSample]_vars

\* ------------------------------------------------------------------------
\* Specification of collectLatLngs on its own
\* ------------------------------------------------------------------------
\* Entries of an array, the arrays of such entries, and the arrays that hold
\* entries and arrays
FlatEntries == {LatLng(1), LatLng(2), OtherValue}
FlatArrays == {Arr(items) : items \in SeqsUpTo(FlatEntries, MaxEntries)}
NestedArrays == {Arr(items) : items \in SeqsUpTo(FlatEntries \cup FlatArrays, MaxEntries)}
LatLngInputs == NestedArrays \cup {NullValue, LatLng(1)}
\* The target array: the default [] or an array that holds points already
Targets == {<<>>, <<LatLng(3)>>}

InitCollect ==
    /\ InitFnOnly
    /\ \E x \in LatLngInputs, t \in Targets : fnArgs = [latLngs |-> x, target |-> t]

CollectLatLngs ==
    /\ ~fnOut.done
    /\ fnOut' = Returned("collect", collectLatLngs(fnArgs.latLngs, fnArgs.target))
    /\ FnFrame

NextCollect == CollectLatLngs

SpecCollect == InitCollect /\ [][NextCollect]_vars

\* ------------------------------------------------------------------------
\* Specification of zoomTrackToMax on its own
\* ------------------------------------------------------------------------
\* Views a map can have before the call, bounds, and values that
\* getBoundsZoom, getMinZoom and getMaxZoom return
PriorViews == {NoView, [kind |-> "setView", target |-> <<0, 100>>, zoom |-> 9]}
BoundsArgs ==
    {NoBounds, [valid |-> FALSE, lo |-> 0, hi |-> 0], [valid |-> TRUE, lo |-> 0, hi |-> 1000]}
BoundsZooms == {NotFinite} \cup {Zoom(z) : z \in {-1, 0, 5, 12, 17, 18, 19, 25}}
MinZooms == {NotFinite, Zoom(0), Zoom(3), Zoom(19)}
MaxZooms == {NotFinite, Zoom(OPENTOPO_MAX_ZOOM), Zoom(MAPTILER_MAX_ZOOM)}

InitZoom ==
    /\ InitFnOnly
    /\ \E v \in PriorViews, b \in BoundsArgs, z \in BoundsZooms,
          lo \in MinZooms, hi \in MaxZooms :
          fnArgs = [view |-> v, bounds |-> b, boundsZoom |-> z, minZoom |-> lo, maxZoom |-> hi]

ZoomTrackToMax ==
    /\ ~fnOut.done
    /\ fnOut' = Returned("zoom", zoomTrackToMax(fnArgs.view, fnArgs.bounds, fnArgs.boundsZoom,
                                                fnArgs.minZoom, fnArgs.maxZoom))
    /\ FnFrame

NextZoom == ZoomTrackToMax

SpecZoom == InitZoom /\ [][NextZoom]_vars

\* ------------------------------------------------------------------------
\* Specification of bringLayerToBackWhenReady on its own
\* ------------------------------------------------------------------------
\* The outline layers of a track of two polylines
Layers == {1, 2}

\* The two versions of the function in the file: the one that counts
\* attempts and the simplified one with a single deferred check
Versions == {"attempts", "simplified"}

\* An outline layer at the call from addTrackOutline: the check that is due
\* (the body of the function or the deferred callback of the simplified
\* version), the attempts left, the deferred checks scheduled so far and what
\* each check found
CalledLayer(v) ==
    [version |-> v,
     stage |-> "call",
     attemptsLeft |-> IF v = "attempts" THEN LAYER_READY_MAX_ATTEMPTS ELSE 0,
     pending |-> TRUE,
     deferred |-> 0,
     log |-> <<>>]

InitLayer ==
    /\ InitPage
    /\ rawPeaks = <<>>
    /\ peakResult = NotApplied
    /\ trackInput = <<>>
    /\ arrowResult = NotApplied
    /\ fnArgs = NoArgs
    /\ fnOut = NotApplied
    /\ \E v \in Versions : layer = [l \in Layers |-> CalledLayer(v)]
    /\ animators = NoAnimators

\* What a check enters in the log
Found(attached, throws) ==
    IF ~attached THEN "absent" ELSE IF throws THEN "threw" ELSE "called"

\* One check of the version with attempts: the call from addTrackOutline or
\* a deferred call
CheckWithAttempts(st, attached, throws) ==
    LET seen == [st EXCEPT !.log = Append(@, Found(attached, throws))]
    IN IF attached THEN [seen EXCEPT !.pending = FALSE]
       ELSE IF st.attemptsLeft = 0 THEN [seen EXCEPT !.pending = FALSE]
       ELSE [seen EXCEPT !.attemptsLeft = @ - 1, !.deferred = @ + 1]

\* One check of the simplified version: the body of the function, which
\* returns only after a bringToBack that did not throw, or its deferred
\* callback
CheckSimplifiedNoFallThrough(st, attached, throws) ==
    LET seen == [st EXCEPT !.log = Append(@, Found(attached, throws))]
    IN IF st.stage = "call"
       THEN IF attached
            THEN [seen EXCEPT !.pending = FALSE]
            ELSE [seen EXCEPT !.stage = "callback", !.deferred = @ + 1]
       ELSE [seen EXCEPT !.pending = FALSE]

CheckSimplified(st, attached, throws) ==
    LET seen == [st EXCEPT !.log = Append(@, Found(attached, throws))]
    IN IF st.stage = "call"
       THEN IF attached /\ ~throws
            THEN [seen EXCEPT !.pending = FALSE]
            ELSE [seen EXCEPT !.stage = "callback", !.deferred = @ + 1]
       ELSE [seen EXCEPT !.pending = FALSE]

\* A due check of layer l runs; attached tells whether the path of the layer
\* is in the document, throws whether bringToBack throws when it is called
CheckLayer(l, attached, throws) ==
    /\ layer[l].pending
    /\ layer' = [layer EXCEPT ![l] =
                     IF @.version = "attempts"
                     THEN CheckWithAttempts(@, attached, throws)
                     ELSE CheckSimplified(@, attached, throws)]
    /\ UNCHANGED <<pageVars, lazyVars, initVars, mapVars, clickVars, uncaught, lastEvent,
                   rawPeaks, peakResult, trackInput, arrowResult, fnArgs, fnOut, animators>>

NextLayer == \E l \in Layers, attached \in BOOLEAN, throws \in BOOLEAN : CheckLayer(l, attached, throws)

SpecLayer == InitLayer /\ [][NextLayer]_vars

\* ------------------------------------------------------------------------
\* Specification of calculatePeakFontSize on its own
\* ------------------------------------------------------------------------
\* String(value).length of a peak number
RECURSIVE StringLength(_)
StringLength(value) == IF value < 10 THEN 1 ELSE 1 + StringLength(value \div 10)

\* The reduce over the sanitized strings; peak numbers are never undefined
\* or null (peak.number || 0), so the filter keeps every entry
CharCount(numbers) == SumSeq([i \in 1..Len(numbers) |-> StringLength(numbers[i])])

AtLeast(floor, value) == IF value < floor THEN floor ELSE value

\* baseFontSize - reduction in units of 1/10000:
\* 11 - (1.5 + (charCount + (n - 1) * 0.85) * 0.95)
ReducedSize(numbers) ==
    PEAK_TEXT_FONT_SIZE * 10000 - 15000
        - CharCount(numbers) * 9500 - (Len(numbers) - 1) * 8075

\* Math.round of a value given in units of 1/10000; no value of the formula
\* above lies on a half for fewer than 21 numbers
MathRound(scaled) == (scaled + 5000) \div 10000

calculatePeakFontSizeNoFloor(numbers) ==
    IF numbers = <<>> THEN PEAK_TEXT_FONT_SIZE
    ELSE IF Len(numbers) = 1
    THEN IF StringLength(numbers[1]) <= 2
         THEN PEAK_TEXT_FONT_SIZE
         ELSE PEAK_TEXT_FONT_SIZE - (StringLength(numbers[1]) - 2)
    ELSE MathRound(ReducedSize(numbers))

calculatePeakFontSize(numbers) ==
    IF numbers = <<>> THEN PEAK_TEXT_FONT_SIZE
    ELSE IF Len(numbers) = 1
    THEN IF StringLength(numbers[1]) <= 2
         THEN PEAK_TEXT_FONT_SIZE
         ELSE AtLeast(7, PEAK_TEXT_FONT_SIZE - (StringLength(numbers[1]) - 2))
    ELSE AtLeast(5, MathRound(ReducedSize(numbers)))

\* Peak numbers of 1 to 7 characters
PeakNumbers == {1, 25, 100, 12345, 1000000}

\* Two peak icons to compare
InitFont ==
    /\ InitFnOnly
    /\ \E a \in SeqsUpTo(PeakNumbers, MaxNumbers), b \in SeqsUpTo(PeakNumbers, MaxNumbers) :
          fnArgs = [fewer |-> a, more |-> b]

\* createPeakIcon computes the font size of each icon
CalculatePeakFontSize ==
    /\ ~fnOut.done
    /\ fnOut' = Returned("fontSize", [fewer |-> calculatePeakFontSize(fnArgs.fewer),
                                      more |-> calculatePeakFontSize(fnArgs.more)])
    /\ FnFrame

NextFont == CalculatePeakFontSize

SpecFont == InitFont /\ [][NextFont]_vars

\* ------------------------------------------------------------------------
\* Specification of the static map generator (generate-map-images.js)
\* ------------------------------------------------------------------------
\* A tour of tours.json, by what happens to it: it has no gpx field, its GPX
\* file is not found, the file has no valid track point or cannot be parsed,
\* the request to the map API fails, the PNG cannot be written, or the PNG
\* is written
TourKinds == {"noGpx", "notFound", "noPoints", "apiFails", "writeFails", "ok"}

\* The loop of main skips the tour before generateMapImage is called
IsSkipped(tour) == tour \in {"noGpx", "notFound"}

\* generateMapImage: whether fs.writeFileSync wrote the PNG of the tour. The
\* function returns early without track points and catches the errors of
\* fetchStaticMap and writeFileSync.
generateMapImage(tour) == tour = "ok"

\* The counters of main before the loop; written counts the PNG files
MainStart == [next |-> 1, generated |-> 0, skipped |-> 0, written |-> 0]

InitGen ==
    /\ InitPage
    /\ rawPeaks = <<>>
    /\ peakResult = NotApplied
    /\ trackInput = <<>>
    /\ arrowResult = NotApplied
    /\ layer = NoLayer
    /\ animators = NoAnimators
    /\ fnArgs \in SeqsUpTo(TourKinds, MaxTours)
    /\ fnOut = [done |-> FALSE, out |-> MainStart]

\* One iteration of the for loop of main
ProcessTour ==
    /\ ~fnOut.done
    /\ fnOut.out.next <= Len(fnArgs)
    /\ LET tour == fnArgs[fnOut.out.next]
           st == fnOut.out
       IN fnOut' = [done |-> FALSE,
                    out |-> IF IsSkipped(tour)
                            THEN [st EXCEPT !.next = @ + 1, !.skipped = @ + 1]
                            ELSE [st EXCEPT !.next = @ + 1,
                                            !.generated = @ + 1,
                                            !.written = @ + (IF generateMapImage(tour)
                                                             THEN 1 ELSE 0)]]
    /\ FnFrame

\* The loop is over: main reports generated and skipped
ReportCounts ==
    /\ ~fnOut.done
    /\ fnOut.out.next > Len(fnArgs)
    /\ fnOut' = Returned("main", fnOut.out)
    /\ FnFrame

NextGen == ProcessTour \/ ReportCounts

SpecGen == InitGen /\ [][NextGen]_vars

\* ------------------------------------------------------------------------
\* Specification of the peak path animators (peak-path.js)
\* ------------------------------------------------------------------------
\* The [data-peak-path] sections of the page, one animator each
Animators == {1, 2}

\* (animators.listener is the listener or callback that ran last)
\* An animator after its constructor: whether it has a path element, the
\* handle in this.raf (0 for null; requestAnimationFrame returns a positive
\* handle), the animation-frame callbacks that are pending for it, the
\* requests made, the calls of schedule(), the calls that an update has
\* followed, and the runs of update
Constructed(hasPath) ==
    [pathEl |-> hasPath, raf |-> 0, callbacks |-> 0, requests |-> 0,
     scheduled |-> 0, served |-> 0, updates |-> 0]

\* schedule()
scheduleNoGuard(st) ==
    [st EXCEPT !.scheduled = @ + 1, !.requests = @ + 1,
               !.raf = st.requests + 1, !.callbacks = @ + 1]

schedule(st) ==
    IF ~st.pathEl \/ st.raf # 0
    THEN [st EXCEPT !.scheduled = @ + 1]
    ELSE [st EXCEPT !.scheduled = @ + 1, !.requests = @ + 1,
                    !.raf = st.requests + 1, !.callbacks = @ + 1]

\* The callback given to requestAnimationFrame: this.raf = null, update()
FrameCallback(st) ==
    [st EXCEPT !.callbacks = @ - 1, !.raf = 0, !.updates = @ + 1,
               !.served = st.scheduled]

\* schedule() for the animators of S, called by the given listener
ScheduleEach(S, listener) ==
    /\ \A a \in S : animators.anim[a].scheduled < MaxCalls
    /\ animators' = [animators EXCEPT
                         !.listener = listener,
                         !.anim = [a \in Animators |->
                                      IF a \in S THEN schedule(@[a]) ELSE @[a]]]

AnimFrame ==
    UNCHANGED <<pageVars, lazyVars, initVars, mapVars, clickVars, uncaught, lastEvent,
                rawPeaks, peakResult, trackInput, arrowResult, fnArgs, fnOut, layer>>

InitAnim ==
    /\ InitPage
    /\ rawPeaks = <<>>
    /\ peakResult = NotApplied
    /\ trackInput = <<>>
    /\ arrowResult = NotApplied
    /\ fnArgs = NoArgs
    /\ fnOut = NotApplied
    /\ layer = NoLayer
    /\ \E obs \in BOOLEAN, hasPath \in [Animators -> BOOLEAN] :
          animators = [started |-> FALSE,
                       listener |-> "none",
                       resizeObserver |-> obs,
                       animatorMap |-> {},
                       anim |-> [a \in Animators |-> Constructed(hasPath[a])]]

\* sections.forEach: an animator with a path element is put in the
\* animatorMap and scheduled
StartAnimators ==
    /\ ~animators.started
    /\ LET withPath == {a \in Animators : animators.anim[a].pathEl}
       IN animators' = [animators EXCEPT
                           !.started = TRUE,
                           !.listener = "sections",
                           !.animatorMap = withPath,
                           !.anim = [a \in Animators |->
                                        IF a \in withPath THEN schedule(@[a]) ELSE @[a]]]
    /\ AnimFrame

\* The ResizeObserver callback with entries for the wrappers of S
ResizeObserverCallback(S) ==
    /\ animators.started
    /\ animators.resizeObserver
    /\ S # {} /\ S \subseteq animators.animatorMap
    /\ ScheduleEach(S, "ResizeObserver")
    /\ AnimFrame

\* scheduleAll as listener of the window's resize event
WindowResize ==
    /\ animators.started
    /\ ScheduleEach(animators.animatorMap, "resize")
    /\ AnimFrame

\* scheduleAll as listener of orientationchange, added without ResizeObserver
OrientationChange ==
    /\ animators.started
    /\ ~animators.resizeObserver
    /\ ScheduleEach(animators.animatorMap, "orientationchange")
    /\ AnimFrame

\* An animation frame runs a pending callback of animator a
AnimationFrame(a) ==
    /\ animators.started
    /\ animators.anim[a].callbacks > 0
    /\ animators' = [animators EXCEPT !.listener = "frame", !.anim[a] = FrameCallback(@)]
    /\ AnimFrame

NextAnim ==
    \/ StartAnimators
    \/ \E S \in SUBSET Animators : ResizeObserverCallback(S)
    \/ WindowResize
    \/ OrientationChange
    \/ \E a \in Animators : AnimationFrame(a)

\* The browser runs every requested animation-frame callback
SpecAnim ==
    /\ InitAnim
    /\ [][NextAnim]_vars
    /\ \A a \in Animators : WF_vars(AnimationFrame(a))

\* ------------------------------------------------------------------------
\* Properties
\* ------------------------------------------------------------------------
stateVars == <<pageVars, lazyVars, initVars, mapVars, clickVars, uncaught, fnVars>>

DirectCallOn(c) == lastEvent'.op = "initMap" /\ lastEvent'.c = c

\* C1: at most one Leaflet map and one GPX load are ever created for a
\* canvas, whatever triggers call initMap; the first call that passes the
\* Leaflet check marks the canvas initialised, and a later call of initMap on
\* an initialised canvas changes no state.
C1_InitOnce ==
    [][\A c \in Canvases :
          /\ mapCount'[c] <= 1
          /\ gpxCount'[c] <= 1
          /\ (c \notin initializedMaps /\ leaflet /\ DirectCallOn(c))
                => c \in initializedMaps'
          /\ c \in initializedMaps =>
                /\ c \in initializedMaps'
                /\ mapCount'[c] = mapCount[c]
                /\ gpxCount'[c] = gpxCount[c]
                /\ DirectCallOn(c) => UNCHANGED stateVars]_vars

\* A direct initMap call has just returned early on a canvas that already
\* has its map and its GPX load
C1_Witness ==
    /\ lastEvent.op = "initMap"
    /\ lastEvent.outcome = "noop"
    /\ lastEvent.c \in initializedMaps
    /\ mapCount[lastEvent.c] = 1
    /\ gpxCount[lastEvent.c] = 1

\* C2: after the 'error' event of its GPX load a canvas shows the fallback
\* message, has no outline, arrow, endpoint or peak marker, is not registered
\* for peak clicks, and stays failed: no further GPX load is created for it.
C2_ErrorIsFailed ==
    [][\A c \in Canvases :
          /\ gpx'[c] = "error" =>
                /\ fallback'[c]
                /\ decor'[c] = NoDecor
                /\ steps'[c] = <<>>
                /\ ~mapRegistry'[c].registered
                /\ ~peakMarkerRegistry'[c].set
                /\ gpxCount'[c] = 1
          /\ gpx[c] = "error" =>
                /\ gpx'[c] = "error"
                /\ gpxCount'[c] = gpxCount[c]
                /\ mapCount'[c] = mapCount[c]]_vars

\* A canvas whose GPX load failed, beside a canvas whose load succeeded
C2_Witness ==
    \E c, d \in Canvases :
        /\ gpx[c] = "error" /\ fallback[c]
        /\ gpx[d] = "loaded" /\ ~fallback[d]

CodeOrderWithLines ==
    <<"fit", "register", "collect", "outline", "arrows", "endpoints", "peaks">>
CodeOrderNoLines == <<"fit", "register", "collect", "peaks">>
ClaimedOrder ==
    <<"collect", "outline", "arrows", "endpoints", "peaks", "fit", "register">>

Position(seq, x) == CHOOSE i \in 1..Len(seq) : seq[i] = x
OccursIn(seq, x) == \E i \in 1..Len(seq) : seq[i] = x

\* seq makes its calls in the relative order in which order lists them
FollowsOrder(seq, order) ==
    \A i, j \in 1..Len(seq) :
        i < j => /\ OccursIn(order, seq[i]) /\ OccursIn(order, seq[j])
                 /\ Position(order, seq[i]) < Position(order, seq[j])

Ready(c) == gpx[c] = "loaded" /\ mapRegistry[c].registered

ClickOn(c) == lastEvent'.op = "click" /\ lastEvent'.c = c

\* C4: a click on a peak of a canvas that is not Ready (no GPX loaded and
\* registered) changes no view, focus state, timer or popup, and a Ready
\* canvas stays Ready.
C4_ClicksOnlyWhenReady ==
    [][\A c \in Canvases :
          /\ (~Ready(c) /\ ClickOn(c)) => UNCHANGED stateVars
          /\ mapRegistry[c].registered => Ready(c)
          /\ Ready(c) => (gpx'[c] = "loaded" /\ mapRegistry'[c].registered)]_vars

\* A peak click has just been handled for a canvas whose GPX load failed,
\* while the other canvas is Ready and focused on a peak
C4_Witness ==
    /\ lastEvent.op = "click"
    /\ lastEvent.outcome = "nomap"
    /\ gpx[lastEvent.c] = "error"
    /\ \E d \in Canvases : Ready(d) /\ mapRegistry[d].currentPeak # NoKey

\* A labelled peak marker (one with a popup) is on the map at the key
LabelledMarkerAt(c, key) ==
    \E i \in 1..Len(decor[c].peaks) :
        decor[c].peaks[i].key = key /\ decor[c].peaks[i].label # NoLabel

HandledClick == lastEvent'.op = "click" /\ lastEvent'.outcome \in {"focus", "overview"}

\* The effect of a handled click except for the popup timer
ClickEffect(c, k) ==
    IF mapRegistry[c].currentPeak # k
    THEN /\ view'[c] = [kind |-> "flyTo", target |-> lastEvent'.at,
                        zoom |-> IF dataKey[c] THEN MAPTILER_MAX_ZOOM ELSE OPENTOPO_MAX_ZOOM]
         /\ mapRegistry'[c].currentPeak = k
         /\ popup' = popup
    ELSE /\ view'[c] = [kind |-> "flyToBounds",
                        target |-> <<mapRegistry[c].defaultBounds.lo,
                                     mapRegistry[c].defaultBounds.hi>>,
                        zoom |-> 0]
         /\ mapRegistry'[c].currentPeak = NoKey
         /\ popup'[c] = NoKey
         /\ timers' = timers

FocusOnlyByClick ==
    \A c \in Canvases :
        (mapRegistry[c].registered
            /\ mapRegistry'[c].currentPeak # mapRegistry[c].currentPeak)
        => (HandledClick /\ lastEvent'.c = c)

\* C5 as stated: every click on a peak that is not the focused one flies to
\* it, focuses it and schedules its popup; a click on the focused peak flies
\* back to the default bounds, closes popups and clears the focus.
C5_Original ==
    [][/\ HandledClick =>
            LET c == lastEvent'.c
                k == coordKey(lastEvent'.at[1], lastEvent'.at[2])
            IN /\ ClickEffect(c, k)
               /\ mapRegistry[c].currentPeak # k
                     => timers' = Append(timers, [c |-> c, key |-> k])
       /\ FocusOnlyByClick]_vars

\* C5 (amended): a click on a peak that is not the focused one flies to it
\* at the map's maximum zoom and focuses it, and schedules its popup exactly
\* when a labelled marker is on the map at its key; a click on the focused
\* peak flies back to the default bounds, closes popups and clears the focus.
\* The focus changes in no other way.
C5_PeakToggle ==
    [][/\ HandledClick =>
            LET c == lastEvent'.c
                k == coordKey(lastEvent'.at[1], lastEvent'.at[2])
            IN /\ ClickEffect(c, k)
               /\ mapRegistry[c].currentPeak # k
                     => timers' = IF LabelledMarkerAt(c, k)
                                  THEN Append(timers, [c |-> c, key |-> k])
                                  ELSE timers
       /\ FocusOnlyByClick]_vars

\* A second click on the focused peak has flown the map back to the default
\* bounds while the popup timer of the first click is still pending
C5_Witness ==
    /\ lastEvent.op = "click"
    /\ lastEvent.outcome = "overview"
    /\ view[lastEvent.c].kind = "flyToBounds"
    /\ mapRegistry[lastEvent.c].currentPeak = NoKey
    /\ timers # <<>>
    /\ Head(timers).c = lastEvent.c

\* The indices of the raw peaks that the indexer accepts
Accepted == {i \in 1..Len(rawPeaks) : IsCounted(rawPeaks[i])}

RECURSIVE NumbersAt(_, _)
NumbersAt(peaks, key) ==
    IF peaks = <<>> THEN <<>>
    ELSE (IF IsCounted(peaks[1]) /\ PeakKey(peaks[1]) = key
          THEN <<IF peaks[1].number = NoNumber THEN 0 ELSE peaks[1].number>>
          ELSE <<>>)
         \o NumbersAt(Tail(peaks), key)

\* C6: the indexer creates exactly one marker per distinct coordinate key
\* of the accepted entries; a marker's numbers are the numbers of the entries
\* with its key in input order (0 for an absent number), its count is their
\* number, and the counts add up to the number of accepted entries.
C6_OneMarkerPerKey ==
    peakResult.done =>
        LET out == peakResult.out
            keys == {PeakKey(rawPeaks[i]) : i \in Accepted}
        IN /\ Len(out) = Cardinality(keys)
           /\ {out[j].key : j \in 1..Len(out)} = keys
           /\ \A j \in 1..Len(out) :
                 /\ out[j].numbers = NumbersAt(rawPeaks, out[j].key)
                 /\ out[j].count = Len(out[j].numbers)
           /\ SumSeq([j \in 1..Len(out) |-> out[j].count]) = Cardinality(Accepted)

\* Two entries with the same key and different numbers have given one marker
\* with two numbers and count 2
C6_Witness ==
    /\ peakResult.done
    /\ Len(rawPeaks) = 2
    /\ Len(peakResult.out) = 1
    /\ peakResult.out[1].numbers = <<1, 7>>
    /\ peakResult.out[1].count = 2

\* Digits of a non-negative coordinate in 1e-7 degree
SixDecimals(v) == v \div 10
SeventhDigit(v) == v % 10
FifthDigit(v) == (v \div 100) % 10

\* The nearest multiple of 1e-6, the upper one at a tie
Nearest6(v) ==
    CHOOSE n \in {v \div 10, v \div 10 + 1} :
        \/ Abs(10 * n - v) < 5
        \/ 10 * n - v = 5

LatOf(i) == rawPeaks[i].lat.v
LngOf(i) == rawPeaks[i].lng.v

TwoAccepted == peakResult.done /\ Len(rawPeaks) = 2 /\ Accepted = {1, 2}

DifferOnlyAt7th ==
    /\ SixDecimals(LatOf(1)) = SixDecimals(LatOf(2))
    /\ SixDecimals(LngOf(1)) = SixDecimals(LngOf(2))
    /\ LatOf(1) # LatOf(2) \/ LngOf(1) # LngOf(2)

DifferAt5th ==
    \/ FifthDigit(LatOf(1)) # FifthDigit(LatOf(2))
    \/ FifthDigit(LngOf(1)) # FifthDigit(LngOf(2))

SameRoundingSide ==
    /\ (SeventhDigit(LatOf(1)) < 5) = (SeventhDigit(LatOf(2)) < 5)
    /\ (SeventhDigit(LngOf(1)) < 5) = (SeventhDigit(LngOf(2)) < 5)

\* C7 as stated: two peaks that differ only at the 7th decimal are always
\* merged, two peaks that differ at the 5th decimal never.
C7_Original ==
    TwoAccepted =>
        /\ DifferOnlyAt7th => Len(peakResult.out) = 1
        /\ DifferAt5th => Len(peakResult.out) = 2

\* C7 (amended): peaks are merged exactly when their latitudes and their
\* longitudes round to the same 6 decimals.  Two peaks that agree in the
\* first 6 decimals and differ at the 7th are merged when the 7th digits are
\* on the same side of the rounding boundary and are kept apart when they are
\* on different sides; two peaks that differ by 0.00001 or more in a
\* coordinate are never merged.
C7_MergeByRounding ==
    /\ peakResult.done =>
          Len(peakResult.out) =
              Cardinality({<<Nearest6(LatOf(i)), Nearest6(LngOf(i))>> : i \in Accepted})
    /\ TwoAccepted =>
          /\ (DifferOnlyAt7th /\ SameRoundingSide) => Len(peakResult.out) = 1
          /\ (DifferOnlyAt7th /\ ~SameRoundingSide) => Len(peakResult.out) = 2
          /\ (Abs(LatOf(1) - LatOf(2)) >= 100 \/ Abs(LngOf(1) - LngOf(2)) >= 100)
                => Len(peakResult.out) = 2

\* Two peaks with the same first 6 decimals whose 7th digits lie on different
\* sides of the rounding boundary have given two markers
C7_Witness ==
    /\ TwoAccepted
    /\ DifferOnlyAt7th
    /\ ~SameRoundingSide
    /\ Len(peakResult.out) = 2

FirstAt(key) ==
    CHOOSE i \in Accepted :
        /\ PeakKey(rawPeaks[i]) = key
        /\ \A j \in Accepted : PeakKey(rawPeaks[j]) = key => i <= j

\* C8: the label of a marker, and with it the popup, is the label of the
\* first accepted entry with the marker's key, also when that label is empty
\* and a later entry with the key has one.
C8_FirstLabelWins ==
    peakResult.done =>
        \A j \in 1..Len(peakResult.out) :
            LET m == peakResult.out[j]
            IN /\ m.label = rawPeaks[FirstAt(m.key)].label
               /\ m.hasPopup <=> rawPeaks[FirstAt(m.key)].label # NoLabel

\* "Fricken" followed by "Fricken2" at the same coordinates has given one
\* marker labelled "Fricken" with numbers 1 and 7
C8_Witness ==
    /\ peakResult.done
    /\ rawPeaks = <<Peak(Num(FrickenLat), Num(FrickenLng), "Fricken", 1),
                    Peak(Num(FrickenLat), Num(FrickenLng), "Fricken2", 7)>>
    /\ Len(peakResult.out) = 1
    /\ peakResult.out[1].label = "Fricken"
    /\ peakResult.out[1].hasPopup
    /\ peakResult.out[1].numbers = <<1, 7>>
    /\ peakResult.out[1].key = <<[neg |-> FALSE, mag |-> 47476900],
                                 [neg |-> FALSE, mag |-> 11130200]>>

BadPeaksAttr(c) == dataPeaks[c].kind \in {"malformed", "notArray"}

FreshView(c) == view[c].kind \in {"none", "setView"}

\* C9: when the data-peaks attribute does not parse as an array, the loaded
\* map has no peak marker, no exception has left a handler, and outline,
\* arrows, endpoints, default bounds and fitted view are those of a canvas
\* without data-peaks that loaded the same track.
C9_BadPeaksNonFatal ==
    /\ uncaught = 0
    /\ \A c \in Canvases :
          (gpx[c] = "loaded" /\ BadPeaksAttr(c)) =>
             /\ decor[c].peaks = <<>>
             /\ peakMarkerRegistry[c].markers = <<>>
             /\ \A d \in Canvases :
                   (/\ gpx[d] = "loaded"
                    /\ dataPeaks[d].kind = "none"
                    /\ loadInput[d] = loadInput[c]
                    /\ dataKey[d] = dataKey[c]) =>
                      /\ decor[d] = decor[c]
                      /\ mapRegistry[d].defaultBounds = mapRegistry[c].defaultBounds
                      /\ (FreshView(c) /\ FreshView(d)) => view[c] = view[d]

\* A canvas with a malformed data-peaks attribute and a canvas without the
\* attribute have loaded the same track, with outline, arrows and endpoints
C9_Witness ==
    \E c, d \in Canvases :
        /\ gpx[c] = "loaded" /\ dataPeaks[c].kind = "malformed"
        /\ gpx[d] = "loaded" /\ dataPeaks[d].kind = "none"
        /\ loadInput[d] = loadInput[c]
        /\ decor[c].outline # <<>>
        /\ decor[c].arrows # <<>>
        /\ decor[c].endpoints # <<>>
        /\ view[c].kind = "setView"

TrackLength == Last(trackInput) - trackInput[1]

\* C10: for a straight track of length L the placement emits
\* floor((L - S/2) / S) + 1 arrows when L >= S/2 and none otherwise, however
\* the length is divided into segments.
C10_ArrowCount ==
    arrowResult.done =>
        Len(arrowResult.out) =
            IF 2 * TrackLength >= ARROW_SPACING_METERS
            THEN (2 * TrackLength - ARROW_SPACING_METERS) \div (2 * ARROW_SPACING_METERS) + 1
            ELSE 0

\* A track of six or more points, with coincident points among them, has
\* given three or more arrows, two of them on one segment
C10_Witness ==
    /\ arrowResult.done
    /\ Len(trackInput) >= 6
    /\ \E i \in 1..(Len(trackInput) - 1) : trackInput[i] = trackInput[i + 1]
    /\ Len(arrowResult.out) >= 3
    /\ \E i \in 1..(Len(arrowResult.out) - 1) :
          /\ arrowResult.out[i].from = arrowResult.out[i + 1].from
          /\ arrowResult.out[i].to = arrowResult.out[i + 1].to

\* The distance travelled along a point sequence up to its i-th point
RECURSIVE TravelledTo(_, _)
TravelledTo(pts, i) ==
    IF i <= 1 THEN 0
    ELSE TravelledTo(pts, i - 1) + Abs(pts[i].pos - pts[i - 1].pos)

\* The k-th arrow distance, k counted from 1
ArrowDistance(k) == ARROW_SPACING_METERS \div 2 + (k - 1) * ARROW_SPACING_METERS

\* C11: the arrows are at the distances S/2, S/2 + S, S/2 + 2S, ... along
\* the point sequence of the placement loop, in increasing order, one for
\* every such distance up to the total length; each arrow lies on the segment
\* that contains its distance and carries the ends of that segment, from
\* which its bearing is computed.
C11_ArrowsAtSpacing ==
    (arrowResult.done /\ Len(trackInput) >= 2) =>
        LET out == arrowResult.out
            pts == SampleTrackPoints(trackInput)
            total == TravelledTo(pts, Len(pts))
        IN /\ \A i \in 1..Len(out) : out[i].at = ArrowDistance(i)
           /\ \A i \in 1..Len(out) : out[i].at <= total
           /\ ArrowDistance(Len(out) + 1) > total
           /\ \A i \in 1..Len(out) :
                 \E j \in 2..Len(pts) :
                    /\ out[i].from = pts[j - 1].pos
                    /\ out[i].to = pts[j].pos
                    /\ out[i].seg = Abs(pts[j].pos - pts[j - 1].pos)
                    /\ TravelledTo(pts, j - 1) <= out[i].at
                    /\ out[i].at <= TravelledTo(pts, j)
                    /\ out[i].into = out[i].at - TravelledTo(pts, j - 1)

\* A track of 1000 m has arrows at 200, 600 and 1000 m, the last one at the
\* end of the track
C11_Witness ==
    /\ arrowResult.done
    /\ trackInput = <<0, 500, 1000>>
    /\ [i \in 1..Len(arrowResult.out) |-> arrowResult.out[i].at] = <<200, 600, 1000>>
    /\ \A i \in 1..3 : arrowResult.out[i].from = 0 /\ arrowResult.out[i].to = 1000

Sampled(fn) == fnOut.done /\ fnOut.fn = fn

\* C12: for a track of 2 points or more the sampled sequence is a
\* subsequence of the input in input order, starts with the first point and
\* ends with the final point: the final point object for the arrow sampler,
\* a point with the coordinates of the final point for simplifyTrackPoints.
C12_SampleKeepsEnds ==
    ((Sampled("sample") \/ Sampled("simplify")) /\ Len(fnArgs.points) >= 2) =>
        LET out == fnOut.out
            pts == fnArgs.points
        IN /\ out # <<>>
           /\ \A i \in 1..Len(out) :
                 /\ out[i].idx \in 1..Len(pts)
                 /\ out[i].pos = pts[out[i].idx]
           /\ \A i \in 1..(Len(out) - 1) : out[i].idx < out[i + 1].idx
           /\ out[1].idx = 1
           /\ Sampled("sample") => Last(out).idx = Len(pts)
           /\ Sampled("simplify") => Last(out).pos = Last(pts)

\* Seven points sampled at stride 5: the points 1 and 6 and the final point,
\* which the stride skips
C12_Witness ==
    /\ Sampled("sample")
    /\ Len(fnArgs.points) = 7
    /\ [i \in 1..Len(fnOut.out) |-> fnOut.out[i].idx] = <<1, 6, 7>>

\* C16: simplifyTrackPoints returns at most MAX_TRACK_POINTS points, and
\* returns an input of at most MAX_TRACK_POINTS points unchanged.
C16_AtMostMaxPoints ==
    Sampled("simplify") =>
        /\ Len(fnOut.out) <= fnArgs.max
        /\ Len(fnArgs.points) <= fnArgs.max =>
              [i \in 1..Len(fnOut.out) |-> fnOut.out[i].pos] = fnArgs.points

\* The leaf points of a value, depth first and left to right
RECURSIVE LeafPoints(_)
RECURSIVE LeafPointsOf(_)
LeafPointsOf(entries) ==
    IF entries = <<>> THEN <<>>
    ELSE LeafPoints(Head(entries)) \o LeafPointsOf(Tail(entries))

LeafPoints(x) ==
    IF x.e = "pt" THEN <<x>>
    ELSE IF x.e = "arr" THEN LeafPointsOf(x.items)
    ELSE <<>>

RECURSIVE LeafCount(_)
LeafCount(x) ==
    IF x.e = "pt" THEN 1
    ELSE IF x.e = "arr"
         THEN SumSeq([i \in 1..Len(x.items) |-> LeafCount(x.items[i])])
         ELSE 0

\* C13: for a nested array collectLatLngs returns, after what the target
\* held, the leaf points in depth-first left-to-right order and nothing else,
\* as many as the structure has leaf points, and applied to its own result
\* it returns the same sequence.
C13_CollectFlattens ==
    (Sampled("collect") /\ fnArgs.latLngs.e = "arr") =>
        LET out == fnOut.out
            x == fnArgs.latLngs
            t == fnArgs.target
        IN /\ out = t \o LeafPoints(x)
           /\ Len(out) = Len(t) + LeafCount(x)
           /\ \A i \in 1..Len(out) : out[i].e = "pt"
           /\ collectLatLngs(Arr(out), <<>>) = out

\* Two nested arrays with a non-point entry give their three points in order
C13_Witness ==
    /\ Sampled("collect")
    /\ fnArgs.latLngs = Arr(<<Arr(<<LatLng(1), OtherValue>>), Arr(<<LatLng(2), LatLng(1)>>)>>)
    /\ fnArgs.target = <<>>
    /\ fnOut.out = <<LatLng(1), LatLng(2), LatLng(1)>>

FitsBounds ==
    /\ ~IsMissing(fnArgs.bounds)
    /\ fnArgs.bounds.valid
    /\ fnArgs.boundsZoom.finite

FiniteLimits ==
    /\ fnArgs.minZoom.finite /\ fnArgs.maxZoom.finite
    /\ fnArgs.minZoom.z <= fnArgs.maxZoom.z

\* C14: zoomTrackToMax sets the view on the bounds at a zoom within
\* [minZoom, maxZoom] when the map has finite limits with minZoom <= maxZoom
\* (the zoom that fits the bounds when that lies within the limits), and
\* leaves the view as it was when the bounds are missing or invalid or the
\* computed zoom is not finite.
C14_ZoomWithinLimits ==
    Sampled("zoom") =>
        /\ ~FitsBounds => fnOut.out = fnArgs.view
        /\ FitsBounds =>
              /\ fnOut.out.kind = "setView"
              /\ fnOut.out.target = <<fnArgs.bounds.lo, fnArgs.bounds.hi>>
              /\ FiniteLimits =>
                    /\ fnOut.out.zoom >= fnArgs.minZoom.z
                    /\ fnOut.out.zoom <= fnArgs.maxZoom.z
                    /\ (/\ fnArgs.boundsZoom.z >= fnArgs.minZoom.z
                        /\ fnArgs.boundsZoom.z <= fnArgs.maxZoom.z)
                          => fnOut.out.zoom = fnArgs.boundsZoom.z

\* A fitting zoom of 25 on a map limited to [0, 18] gives a view at zoom 18
C14_Witness ==
    /\ Sampled("zoom")
    /\ FitsBounds
    /\ fnArgs.boundsZoom = Zoom(25)
    /\ fnArgs.minZoom = Zoom(0)
    /\ fnArgs.maxZoom = Zoom(MAPTILER_MAX_ZOOM)
    /\ fnOut.out.kind = "setView"
    /\ fnOut.out.zoom = MAPTILER_MAX_ZOOM

\* C15: when initMap throws for a canvas in a lazy-loading callback, every
\* other canvas that is visible in that callback is initialised, on the
\* IntersectionObserver path and on the scroll-fallback path.
C15_ThrowDoesNotBlockOthers ==
    [][lastEvent'.op = "lazy" =>
          \A c \in Canvases :
              (lastEvent'.at[c] /\ c # lastEvent'.c) => c \in initializedMaps']_vars

\* The polylines below a layer in the order of the GPX document
RECURSIVE LinesInOrder(_)
RECURSIVE LinesInOrderOf(_)
LinesInOrderOf(children) ==
    IF children = <<>> THEN <<>>
    ELSE LinesInOrder(Head(children)) \o LinesInOrderOf(Tail(children))

LinesInOrder(l) ==
    IF l.kind = "group" THEN LinesInOrderOf(l.children)
    ELSE IF l.kind = "line" THEN <<l>>
    ELSE <<>>

RecordedTrack(tree) == ConcatLines(LinesInOrder(tree))

\* C17: on a loaded map the 'A' marker is at the first point and the 'B'
\* marker at the last point of the recorded track, also for a track of
\* several polylines.
C17_EndpointsAtTrackEnds ==
    \A c \in Canvases :
        gpx[c] = "loaded" =>
            LET track == RecordedTrack(loadInput[c][1])
            IN track # <<>> =>
                  decor[c].endpoints = <<[label |-> "A", pos |-> track[1]],
                                         [label |-> "B", pos |-> Last(track)]>>

\* A point sequence without the points that coincide with their predecessor
RECURSIVE Compact(_)
Compact(pts) ==
    IF Len(pts) <= 1 THEN pts
    ELSE LET front == Compact(SubSeq(pts, 1, Len(pts) - 1))
         IN IF Last(pts).pos = Last(front).pos THEN front ELSE Append(front, Last(pts))

\* C18: a track of fewer than 2 points gets no arrow; a segment of distance
\* 0 gets no arrow and changes neither the travelled distance nor the next
\* arrow distance, so the arrows are those of the sequence without its
\* zero-length segments, and every arrow is interpolated on a segment of
\* positive length.
C18_ZeroSegmentsSkipped ==
    arrowResult.done =>
        /\ Len(trackInput) < 2 => arrowResult.out = <<>>
        /\ \A i \in 1..Len(arrowResult.out) :
              /\ arrowResult.out[i].seg > 0
              /\ arrowResult.out[i].from # arrowResult.out[i].to
        /\ Len(trackInput) >= 2 =>
              arrowResult.out = ArrowLoop(Compact(SampleTrackPoints(trackInput)), 2, 0,
                                          ARROW_SPACING_METERS \div 2, ARROW_SPACING_METERS)

\* A track whose sampled points begin with two coincident points and go on for
\* 500 m has its arrow 200 m after them
C18_Witness ==
    /\ arrowResult.done
    /\ trackInput = <<0, 0, 0, 0, 0, 0, 500>>
    /\ Len(arrowResult.out) = 1
    /\ arrowResult.out[1].at = 200
    /\ arrowResult.out[1].into = 200
    /\ arrowResult.out[1].from = 0
    /\ arrowResult.out[1].to = 500

\* The check of layer l that runs in the step found the layer attached
FoundAttached(l) ==
    /\ Len(layer'[l].log) = Len(layer[l].log) + 1
    /\ Last(layer'[l].log) # "absent"

NeverAttached(l) == \A i \in 1..Len(layer[l].log) : layer[l].log[i] = "absent"

BringToBackCalls(l) ==
    Cardinality({i \in 1..Len(layer[l].log) : layer[l].log[i] # "absent"})

\* At most LAYER_READY_MAX_ATTEMPTS deferred checks per layer, none after the
\* chain stopped, and a chain that never found the layer attached never
\* called bringToBack
RetryBounded ==
    \A l \in Layers :
        /\ layer[l].deferred <= LAYER_READY_MAX_ATTEMPTS
        /\ Len(layer[l].log) <= LAYER_READY_MAX_ATTEMPTS + 1
        /\ layer[l].pending <=> Len(layer[l].log) = layer[l].deferred
        /\ ~layer[l].pending => Len(layer[l].log) = layer[l].deferred + 1
        /\ NeverAttached(l) => BringToBackCalls(l) = 0
        /\ (~layer[l].pending /\ NeverAttached(l)) =>
              layer[l].deferred = IF layer[l].version = "attempts"
                                  THEN LAYER_READY_MAX_ATTEMPTS ELSE 1

\* C19 as stated: the chain is bounded by LAYER_READY_MAX_ATTEMPTS deferred
\* checks, the first check that finds the layer attached calls bringToBack
\* and nothing more is scheduled after it, and a chain that never finds the
\* layer attached stops after its last attempt.
C19_Original ==
    /\ []RetryBounded
    /\ [][\A l \in Layers :
             FoundAttached(l) =>
                 /\ layer'[l].deferred = layer[l].deferred
                 /\ ~layer'[l].pending]_vars

\* C19 (amended): as stated, except that the simplified version, whose
\* chain is one deferred check, schedules that check also when bringToBack
\* throws in the check made at the call.
C19_BoundedRetry ==
    /\ []RetryBounded
    /\ [][\A l \in Layers :
             FoundAttached(l) =>
                 IF /\ layer[l].version = "simplified"
                    /\ layer[l].stage = "call"
                    /\ Last(layer'[l].log) = "threw"
                 THEN /\ layer'[l].deferred = layer[l].deferred + 1
                      /\ layer'[l].pending
                 ELSE /\ layer'[l].deferred = layer[l].deferred
                      /\ ~layer'[l].pending]_vars

\* In the simplified version bringToBack threw in the check made at the
\* call of one layer, so the deferred check ran and called it again; the
\* other layer was never attached and its chain stopped after the deferred
\* check
C19_Witness ==
    /\ layer[1].version = "simplified"
    /\ layer[1].log = <<"threw", "called">>
    /\ layer[1].deferred = 1
    /\ ~layer[1].pending
    /\ layer[2].log = <<"absent", "absent">>
    /\ ~layer[2].pending

\* The icon named more shows more characters than the other one
MoreCharacters == CharCount(fnArgs.fewer) < CharCount(fnArgs.more)

\* Both icons show a single number, or both show several
SameKind == (Len(fnArgs.fewer) = 1) <=> (Len(fnArgs.more) = 1)

FontFloor(numbers) == IF Len(numbers) = 1 THEN 7 ELSE 5

\* C20 as stated: an icon with more characters never gets a larger font than
\* one with fewer, and no font is below the floor of 5.
C20_Original ==
    Sampled("fontSize") =>
        /\ MoreCharacters => fnOut.out.more <= fnOut.out.fewer
        /\ fnOut.out.fewer >= 5
        /\ fnOut.out.more >= 5

\* C20 (amended): among icons with a single number and among icons with
\* several numbers, an icon with more characters never gets a larger font
\* than one with fewer; the font is never below 7 for a single number and
\* never below 5 for several.
C20_FontShrinksPerKind ==
    Sampled("fontSize") =>
        /\ (MoreCharacters /\ SameKind) =>
               fnOut.out.more <= fnOut.out.fewer
        /\ fnOut.out.fewer >= FontFloor(fnArgs.fewer)
        /\ fnOut.out.more >= FontFloor(fnArgs.more)
        /\ fnOut.out.fewer <= PEAK_TEXT_FONT_SIZE
        /\ fnOut.out.more <= PEAK_TEXT_FONT_SIZE

\* Two icons with several numbers: 1|25 gets 6, 100|12345|1000000 is held at
\* the floor of 5
C20_Witness ==
    /\ Sampled("fontSize")
    /\ fnArgs.fewer = <<1, 25>>
    /\ fnArgs.more = <<100, 12345, 1000000>>
    /\ fnOut.out = [fewer |-> 6, more |-> 5]

\* The indices of the points the arrow sampler returned
SampledIndices == [i \in 1..Len(fnOut.out) |-> fnOut.out[i].idx]

\* C21 as stated: a track of at most 1000 points is returned unchanged by
\* the sampler of addDirectionArrows.
C21_Original ==
    (Sampled("sample") /\ Len(fnArgs.points) <= 1000) =>
        SampledIndices = [i \in 1..Len(fnArgs.points) |-> i]

\* C21 (amended): the sampler keeps every 5th point, starting with the
\* first, and the final point of a track of at most 1000 points; a longer
\* track of n points is reduced by the stride max(5, floor(n / 200)) in the
\* same way.
C21_SampleEveryFifth ==
    Sampled("sample") =>
        LET n == Len(fnArgs.points)
            long == n \div 200
            stride == IF n <= 1000 \/ long < 5 THEN 5 ELSE long
        IN /\ \A i \in 1..(Len(fnOut.out) - 1) : fnOut.out[i].idx < fnOut.out[i + 1].idx
           /\ {fnOut.out[i].idx : i \in 1..Len(fnOut.out)} =
                  {i \in 1..n : (i - 1) % stride = 0 \/ i = n}

\* A track of 6 points is reduced to its first and its last point
C21_Witness ==
    /\ Sampled("sample")
    /\ Len(fnArgs.points) = 6
    /\ SampledIndices = <<1, 6>>

\* C22: when a popup timer fires, the popup it opens belongs to the peak
\* that is the currentPeak of its map at that moment; after a toggle back to
\* the overview (currentPeak = null) no timer of an earlier click opens a
\* popup.
C22_PopupForFocusedPeak ==
    [][(timers # <<>> /\ timers' = Tail(timers)) =>
           mapRegistry[Head(timers).c].currentPeak = Head(timers).key]_vars

\* The canvas is still watched for becoming visible
Watched(c) ==
    IF hasObserver THEN c \in observed
    ELSE \E i \in 1..Len(pending) : pending[i] = c

\* C23: a canvas leaves the lazy-load watching (observer or pending list of
\* the scroll fallback) only once it is marked initialized, so a canvas that
\* became visible before Leaflet was available can still be initialized by
\* a later visibility trigger.
C23_WatchedUntilInitialized ==
    \A c \in Canvases : Watched(c) \/ c \in initializedMaps

\* The raw peak has numeric coordinates within the ranges of latitude and
\* longitude
InRange(p) ==
    /\ p.lat.t = "num" /\ p.lng.t = "num"
    /\ p.lat.v >= -900000000 /\ p.lat.v <= 900000000
    /\ p.lng.v >= -1800000000 /\ p.lng.v <= 1800000000

\* C24: every raw peak with a numeric latitude in [-90, 90] and a numeric
\* longitude in [-180, 180], a coordinate of exactly 0 included, is counted
\* in exactly one marker, and only the other entries are dropped.
C24_ValidPeaksCounted ==
    peakResult.done =>
        LET out == peakResult.out
            valid == {i \in 1..Len(rawPeaks) : InRange(rawPeaks[i])}
        IN /\ SumSeq([j \in 1..Len(out) |-> out[j].count]) = Cardinality(valid)
           /\ \A i \in valid :
                 Cardinality({j \in 1..Len(out) : out[j].key = PeakKey(rawPeaks[i])}) = 1

\* zoomTrackToMax fitted the viewport of map c when its track was loaded
FittedAtLoad(c) ==
    /\ loadInput[c] # <<>>
    /\ getBounds(loadInput[c][1]).valid
    /\ loadInput[c][2].finite

\* The last view command of map c is the flyToBounds of a toggle-back click
FlownBack(c) == view[c].kind = "flyToBounds"

\* C25: the defaultBounds of a registered map are valid bounds to which the
\* viewport was fitted when the track was loaded, so a toggle-back click
\* never calls flyToBounds with bounds that zoomTrackToMax rejected.
C25_DefaultBoundsValid ==
    \A c \in Canvases :
        /\ mapRegistry[c].registered =>
              (mapRegistry[c].defaultBounds.valid /\ FittedAtLoad(c))
        /\ FlownBack(c) => mapRegistry[c].defaultBounds.valid

\* C26: collectTrackLines returns the polylines in the order in which they
\* occur in the layer tree, so the outlines follow that order and the arrows
\* are those of the track's points in traversal order, from start to end.
C26_LinesInTreeOrder ==
    \A c \in Canvases :
        gpx[c] = "loaded" =>
            LET tree == loadInput[c][1]
            IN /\ decor[c].outline = OutlinesFor(LinesInOrder(tree))
               /\ Len(RecordedTrack(tree)) >= 2 =>
                     decor[c].arrows = DirectionArrowsFor(RecordedTrack(tree))

\* C27: when main has processed all tours, generated + skipped is the
\* number of tours and generated is the number of PNG files written; a tour
\* without valid track points or with a failed API request is not counted
\* as generated, and the tours after it are processed.
C27_GeneratedCountsFiles ==
    Sampled("main") =>
        /\ fnOut.out.next = Len(fnArgs) + 1
        /\ fnOut.out.generated + fnOut.out.skipped = Len(fnArgs)
        /\ fnOut.out.generated = fnOut.out.written

\* At most one animation-frame callback is pending for an animator, it is
\* the one whose handle is in this.raf, and calls of schedule() that no
\* update has followed yet wait for it
OneFramePending ==
    animators.started =>
        \A a \in Animators :
            LET st == animators.anim[a]
            IN /\ st.callbacks <= 1
               /\ st.callbacks = 1 <=> st.raf # 0
               /\ st.scheduled > st.served => st.callbacks = 1
               /\ st.updates = st.requests - st.callbacks

\* A callback of animator a runs in the step
FrameRuns(a) ==
    /\ animators.started /\ animators'.started
    /\ animators'.anim[a].callbacks < animators.anim[a].callbacks

\* C28: for each animator at most one animation-frame callback is pending
\* at any time, calls of schedule() made while one is pending are coalesced
\* into it, a callback that fires runs update exactly once and clears the
\* pending marker, and every call of schedule() is eventually followed by an
\* update.
C28_OneFrameCoalesced ==
    /\ []OneFramePending
    /\ [][\A a \in Animators :
             FrameRuns(a) =>
                 /\ animators'.anim[a].updates = animators.anim[a].updates + 1
                 /\ animators'.anim[a].raf = 0
                 /\ animators'.anim[a].callbacks = 0]_vars
    /\ \A a \in Animators, n \in 1..MaxCalls :
          (animators.started /\ animators.anim[a].scheduled >= n)
              ~> (animators.anim[a].served >= n)

\* Three calls of schedule() for animator 1, from the start of the page and
\* from resize events, wait for one pending callback while animator 2 has
\* been updated
C28_Witness ==
    /\ animators.started
    /\ animators.anim[1].scheduled = 3
    /\ animators.anim[1].served = 0
    /\ animators.anim[1].callbacks = 1
    /\ animators.anim[2].updates >= 1

\* A click has been handled in the step; lastEvent' names the tour entry of
\* the clicked peak, or no canvas for a click that is ignored
ClickStep == lastEvent'.op = "click"

\* C29: a peak click leaves the focus state, the default bounds, the view
\* and the popup of every map other than the one of the clicked peak's tour
\* entry unchanged; a click on an element that is no peak, on a peak with
\* invalid coordinates or on a peak outside any tour entry changes no map.
C29_ClickFrame ==
    [][ClickStep =>
          /\ \A d \in Canvases :
                d # lastEvent'.c =>
                    /\ mapRegistry'[d] = mapRegistry[d]
                    /\ view'[d] = view[d]
                    /\ popup'[d] = popup[d]
                    /\ decor'[d] = decor[d]
          /\ \A i \in 1..Len(timers') : i > Len(timers) => timers'[i].c = lastEvent'.c
          /\ lastEvent'.outcome = "ignored" => UNCHANGED <<mapVars, clickVars>>]_vars

\* A click has focused a peak on one map while the other map is registered
\* and still focused on the peak of an earlier click
C29_Witness ==
    /\ lastEvent.op = "click"
    /\ lastEvent.outcome = "focus"
    /\ \E d \in Canvases :
          /\ d # lastEvent.c
          /\ mapRegistry[d].registered
          /\ mapRegistry[d].currentPeak # NoKey
          /\ mapRegistry[d].currentPeak # mapRegistry[lastEvent.c].currentPeak
          /\ view[d].kind = "flyTo"

\* The values of travelled and nextMarkerDistance at the start of every
\* iteration of the for loop
RECURSIVE SegmentStarts(_, _, _, _)
SegmentStarts(pts, i, travelled, nextMarkerDistance) ==
    IF i > Len(pts) THEN <<>>
    ELSE LET segmentDistance == distanceBetween(pts[i - 1].pos, pts[i].pos)
             after == IF segmentDistance = 0 THEN nextMarkerDistance
                      ELSE SegmentArrows(pts[i - 1].pos, pts[i].pos, segmentDistance,
                                         travelled, nextMarkerDistance,
                                         ARROW_SPACING_METERS).next
         IN <<[travelled |-> travelled, next |-> nextMarkerDistance]>>
            \o SegmentStarts(pts, i + 1, travelled + segmentDistance, after)

\* C30: at the start of every segment the next arrow distance is greater
\* than the distance travelled, so that for every arrow the ratio
\* distanceIntoSegment / segmentDistance lies in (0, 1] and the arrow lies
\* between prev and curr; the loops end (the result exists).
C30_RatioWithinSegment ==
    (arrowResult.done /\ Len(trackInput) >= 2) =>
        LET out == arrowResult.out
            starts == SegmentStarts(SampleTrackPoints(trackInput), 2, 0,
                                    ARROW_SPACING_METERS \div 2)
        IN /\ \A j \in 1..Len(starts) : starts[j].next > starts[j].travelled
           /\ \A i \in 1..Len(out) :
                 LET a == out[i]
                     scaled == a.from * a.seg + (a.to - a.from) * a.into
                 IN /\ a.seg > 0
                    /\ 0 < a.into /\ a.into <= a.seg
                    /\ Min2(a.from, a.to) * a.seg <= scaled
                    /\ scaled <= Max2(a.from, a.to) * a.seg

\* One arrow lies at the very end of its segment (ratio 1), another one
\* inside a segment that starts after the first arrow
C30_Witness ==
    /\ arrowResult.done
    /\ \E i \in 1..Len(arrowResult.out) : arrowResult.out[i].into = arrowResult.out[i].seg
    /\ \E i \in 2..Len(arrowResult.out) :
          /\ arrowResult.out[i].into < arrowResult.out[i].seg
          /\ arrowResult.out[i].from # arrowResult.out[1].from

====
